---- MODULE Spec2Model ----
(***************************************************************************)
(* gitdigest: the ingestion pipeline.  A repository reference is resolved,  *)
(* the repository is acquired by one of the strategies (remote API,         *)
(* server-side clone, in-browser clone, legacy disk clone), its entries are *)
(* filtered, and a tree plus the file contents are produced.                *)
(*                                                                          *)
(* Strings are TLA+ strings; a character is a string of length 1.           *)
(***************************************************************************)
EXTENDS Integers, Sequences, FiniteSets, TLC

(***************************************************************************)
(* String helpers (JavaScript String methods used by the sources).          *)
(***************************************************************************)
Char(s, i) == SubSeq(s, i, i)

Rest(s) == SubSeq(s, 2, Len(s))

StartsWith(s, p) == Len(p) <= Len(s) /\ SubSeq(s, 1, Len(p)) = p

EndsWith(s, p) == Len(p) <= Len(s) /\ SubSeq(s, Len(s) - Len(p) + 1, Len(s)) = p

Includes(s, p) ==
    \E i \in 1..(Len(s) + 1) :
        i + Len(p) - 1 <= Len(s) /\ SubSeq(s, i, i + Len(p) - 1) = p

\* url.replace(/\.git$/, '')
StripGitSuffix(s) == IF EndsWith(s, ".git") THEN SubSeq(s, 1, Len(s) - 4) ELSE s

RECURSIVE TrimLeft(_)
TrimLeft(s) == IF s # "" /\ Char(s, 1) = " " THEN TrimLeft(Rest(s)) ELSE s

RECURSIVE TrimRight(_)
TrimRight(s) ==
    IF s # "" /\ Char(s, Len(s)) = " "
    THEN TrimRight(SubSeq(s, 1, Len(s) - 1))
    ELSE s

\* String.prototype.trim
Trim(s) == TrimRight(TrimLeft(s))

\* s.split(sep), sep a single character: the pieces, empty ones included
RECURSIVE SplitAcc(_, _, _)
SplitAcc(s, sep, cur) ==
    IF s = "" THEN <<cur>>
    ELSE IF Char(s, 1) = sep THEN <<cur>> \o SplitAcc(Rest(s), sep, "")
    ELSE SplitAcc(Rest(s), sep, cur \o Char(s, 1))

Split(s, sep) == SplitAcc(s, sep, "")

\* .filter(Boolean) on a list of strings: the empty strings are dropped
FilterBoolean(parts) == SelectSeq(parts, LAMBDA p : p # "")

RECURSIVE JoinWith(_, _)
JoinWith(parts, sep) ==
    IF parts = <<>> THEN ""
    ELSE IF Len(parts) = 1 THEN parts[1]
    ELSE parts[1] \o sep \o JoinWith(Tail(parts), sep)

\* pattern.replace(/\*/g, '')
RECURSIVE RemoveStars(_)
RemoveStars(p) ==
    IF p = "" THEN ""
    ELSE IF Char(p, 1) = "*" THEN RemoveStars(Rest(p))
    ELSE Char(p, 1) \o RemoveStars(Rest(p))

(***************************************************************************)
(* Regular expressions built from glob patterns.                            *)
(*   GlobMatch: new RegExp('^' + p + '$') where '.' was escaped, '*' became *)
(*   '.*' and '?' became '.'.                                               *)
(*   LooseMatch: the same without the escaping of '.', so '.' matches any   *)
(*   one character.                                                         *)
(***************************************************************************)
RECURSIVE GlobMatch(_, _)
GlobMatch(s, p) ==
    IF p = "" THEN s = ""
    ELSE IF Char(p, 1) = "*"
         THEN GlobMatch(s, Rest(p)) \/ (s # "" /\ GlobMatch(Rest(s), p))
    ELSE IF Char(p, 1) = "?"
         THEN s # "" /\ GlobMatch(Rest(s), Rest(p))
    ELSE s # "" /\ Char(s, 1) = Char(p, 1) /\ GlobMatch(Rest(s), Rest(p))

RECURSIVE LooseMatch(_, _)
LooseMatch(s, p) ==
    IF p = "" THEN s = ""
    ELSE IF Char(p, 1) = "*"
         THEN LooseMatch(s, Rest(p)) \/ (s # "" /\ LooseMatch(Rest(s), p))
    ELSE IF Char(p, 1) \in {"?", "."}
         THEN s # "" /\ LooseMatch(Rest(s), Rest(p))
    ELSE s # "" /\ Char(s, 1) = Char(p, 1) /\ LooseMatch(Rest(s), Rest(p))

\* new RegExp(pattern.replace(/\*/g, '.*').replace(/\?/g, '.')).test(relPath):
\* not anchored, so it matches when some substring of relPath matches
UnanchoredTest(relPath, pattern) == LooseMatch(relPath, "*" \o pattern \o "*")

(***************************************************************************)
(* The Pattern Filter of the remote-API strategy (src/lib/ingest.ts).       *)
(***************************************************************************)
DEFAULT_IGNORE_PATTERNS ==
    << ".git", "node_modules", "__pycache__", ".pytest_cache", ".next",
       ".vscode", ".idea", "dist", "build", "*.pyc", "*.log", ".DS_Store",
       "*.svg", "*.png", "*.jpg", "*.jpeg", "*.gif", "*.ico", "*.pdf",
       "package-lock.json", "yarn.lock", ".pnpm-store", "bun.lock",
       "poetry.lock" >>

\* An optional pattern list (includePatterns?: string[])
Absent == [given |-> FALSE, pats |-> <<>>]

Given(list) == [given |-> TRUE, pats |-> list]

\* opt?.length as a condition
HasLength(opt) == opt.given /\ Len(opt.pats) > 0

\* a mutant of matchPattern: the anchored regular expression only
matchPatternAnchored(path, pattern) == GlobMatch(path, pattern)

\* matchPattern: the anchored regular expression, or the pattern without its
\* '*' as a substring
matchPattern(path, pattern) ==
    \/ GlobMatch(path, pattern)
    \/ Includes(path, RemoveStars(pattern))

AnyMatch(path, pats) == \E i \in 1..Len(pats) : matchPattern(path, pats[i])

\* a mutant of shouldIncludeFile: the include patterns are consulted first
shouldIncludeFileIncludeFirst(path, includePatterns, excludePatterns) ==
    IF HasLength(includePatterns) /\ AnyMatch(path, includePatterns.pats)
    THEN TRUE
    ELSE IF AnyMatch(path, DEFAULT_IGNORE_PATTERNS) THEN FALSE
    ELSE IF HasLength(excludePatterns) /\ AnyMatch(path, excludePatterns.pats)
         THEN FALSE
    ELSE ~HasLength(includePatterns)

shouldIncludeFile(path, includePatterns, excludePatterns) ==
    IF AnyMatch(path, DEFAULT_IGNORE_PATTERNS) THEN FALSE
    ELSE IF HasLength(excludePatterns) /\ AnyMatch(path, excludePatterns.pats)
         THEN FALSE
    ELSE IF HasLength(includePatterns)
         THEN AnyMatch(path, includePatterns.pats)
    ELSE TRUE

(***************************************************************************)
(* The filter of the legacy disk strategy (scanDirectory) and the options   *)
(* its caller builds from the request's pattern text.                       *)
(***************************************************************************)
\* matchPattern of the legacy strategy: the anchored regular expression only
legacyMatchPattern(filePath, pattern) == GlobMatch(filePath, pattern)

\* the ignore package, for patterns without '/': a path is ignored when one
\* of its segments (itself or a parent directory) matches a pattern
IgIgnores(relPath, pats) ==
    LET segs == FilterBoolean(Split(relPath, "/"))
    IN  \E i \in 1..Len(segs) : \E j \in 1..Len(pats) : GlobMatch(segs[i], pats[j])

\* pattern.split(',').map(p => p.trim()).filter(Boolean)
ParsePatterns(pattern) ==
    LET parts == Split(pattern, ",")
    IN  FilterBoolean([i \in 1..Len(parts) |-> Trim(parts[i])])

\* ...(pattern_type === 'include' ? {includePatterns: patterns}
\*                                : {excludePatterns: patterns})
BuildOptions(patternType, pattern) ==
    IF patternType = "include"
    THEN [includePatterns |-> Given(ParsePatterns(pattern)), excludePatterns |-> Absent]
    ELSE [includePatterns |-> Absent, excludePatterns |-> Given(ParsePatterns(pattern))]

\* loadGitignore: the repository's .gitignore lines, then '.git'
LegacyIgnorePatterns(gitignore) == gitignore \o <<".git">>

\* scanDirectory's three checks on one entry: TRUE when the entry is kept
scanKeeps(relativePath, gitignore, includePatterns, excludePatterns) ==
    IF IgIgnores(relativePath, LegacyIgnorePatterns(gitignore)) THEN FALSE
    ELSE IF excludePatterns.given
            /\ \E i \in 1..Len(excludePatterns.pats) :
                   legacyMatchPattern(relativePath, excludePatterns.pats[i])
         THEN FALSE
    ELSE IF includePatterns.given
            /\ ~\E i \in 1..Len(includePatterns.pats) :
                   legacyMatchPattern(relativePath, includePatterns.pats[i])
         THEN FALSE
    ELSE TRUE

(***************************************************************************)
(* The URL resolvers.  new URL(s) for s with an http(s) scheme: the host is *)
(* the text up to the first '/', the path the rest; the constructor throws  *)
(* on an empty host or a host holding a space.  (Query, fragment, port,     *)
(* user info and dot segments are outside the references modelled.)         *)
(***************************************************************************)
None == <<>>

Some(x) == <<x>>

NoUrl == [ok |-> FALSE, hostname |-> "", pathname |-> ""]

RECURSIVE IndexOf(_, _, _)
IndexOf(s, c, from) ==
    IF from > Len(s) THEN 0
    ELSE IF Char(s, from) = c THEN from
    ELSE IndexOf(s, c, from + 1)

\* a space inside the path is percent-encoded
RECURSIVE EncodeSpaces(_)
EncodeSpaces(p) ==
    IF p = "" THEN ""
    ELSE (IF Char(p, 1) = " " THEN "%20" ELSE Char(p, 1)) \o EncodeSpaces(Rest(p))

\* the constructor first strips the spaces around its argument
NewURL(s0) ==
    LET s     == Trim(s0)
        k     == IF StartsWith(s, "https://") THEN 8 ELSE 7
        after == SubSeq(s, k + 1, Len(s))
        slash == IndexOf(after, "/", 1)
        auth  == IF slash = 0 THEN after ELSE SubSeq(after, 1, slash - 1)
    IN  IF ~(StartsWith(s, "https://") \/ StartsWith(s, "http://")) THEN NoUrl
        ELSE IF auth = "" \/ Includes(auth, " ") THEN NoUrl
        ELSE [ok |-> TRUE, hostname |-> auth,
              pathname |-> IF slash = 0 THEN "/"
                           ELSE EncodeSpaces(SubSeq(after, slash, Len(after)))]

HasScheme(s) == StartsWith(s, "http://") \/ StartsWith(s, "https://")

NoRepo == [ok |-> FALSE, host |-> "", owner |-> "", repo |-> "",
           branch |-> None, path |-> None]

\* const [owner, repo, ...rest] = pathParts and the tree/blob/- suffix
RepoOf(u, types, stripRepo) ==
    LET pathParts == FilterBoolean(Split(u.pathname, "/"))
        rest      == SubSeq(pathParts, 3, Len(pathParts))
        typed     == Len(rest) > 0 /\ rest[1] \in types
    IN  IF ~u.ok \/ Len(pathParts) < 2 THEN NoRepo
        ELSE [ok |-> TRUE, host |-> u.hostname, owner |-> pathParts[1],
              repo |-> IF stripRepo THEN StripGitSuffix(pathParts[2]) ELSE pathParts[2],
              branch |-> IF typed /\ Len(rest) > 1 THEN Some(rest[2]) ELSE None,
              path |-> IF typed /\ Len(rest) > 2
                       THEN Some(JoinWith(SubSeq(rest, 3, Len(rest)), "/"))
                       ELSE None]

knownHosts == <<"github.com", "gitlab.com", "bitbucket.org", "gitea.com", "codeberg.org">>

\* parseGitUrl of the remote-API strategy
apiParseGitUrl(input) ==
    LET url == Trim(StripGitSuffix(input))
        u   == IF HasScheme(url) THEN NewURL(url)
               ELSE IF \E i \in 1..Len(knownHosts) : Includes(url, knownHosts[i])
                    THEN NewURL("https://" \o url)
               ELSE IF Includes(url, "/") /\ ~Includes(url, ".")
                    THEN NewURL("https://github.com/" \o url)
               ELSE NoUrl
    IN  RepoOf(u, {"tree", "blob", "-"}, TRUE)

\* parseGitUrl of the clone endpoints (disk and in-memory): no short form,
\* no branch, no subpath
routeParseGitUrl(input) ==
    LET cleanUrl == Trim(StripGitSuffix(input))
        u        == IF HasScheme(cleanUrl) THEN NewURL(cleanUrl)
                    ELSE IF Includes(cleanUrl, "/") THEN NewURL("https://" \o cleanUrl)
                    ELSE NoUrl
    IN  RepoOf(u, {}, TRUE)

\* parseGitUrl of the in-browser clone strategy
clientParseGitUrl(input) ==
    LET cleanUrl == Trim(StripGitSuffix(input))
        u        == IF HasScheme(cleanUrl) THEN NewURL(cleanUrl)
                    ELSE IF Includes(cleanUrl, "/")
                         THEN IF ~Includes(cleanUrl, ".")
                              THEN NewURL("https://github.com/" \o cleanUrl)
                              ELSE NewURL("https://" \o cleanUrl)
                    ELSE NoUrl
    IN  RepoOf(u, {}, TRUE)

\* parseGitUrl of the legacy endpoint (lib/parser): it throws where the
\* others return null; ok = FALSE stands for the throw
legacyParseGitUrl(input0) ==
    LET input == StripGitSuffix(input0)
        u     == IF HasScheme(input) THEN NewURL(input)
                 ELSE IF Includes(input, "github.com") \/ Includes(input, "gitlab.com")
                      THEN NewURL("https://" \o input)
                 ELSE NewURL("https://github.com/" \o input)
    IN  RepoOf(u, {"tree", "blob"}, FALSE)

(***************************************************************************)
(* String.prototype.localeCompare in the root collation: punctuation before *)
(* digits before letters, letters compared without case first, and a        *)
(* lower-case letter before the same letter in upper case.                  *)
(***************************************************************************)
CollationOrder == "_-,;:!?.'()[]{}@*/&#%+<=>|~$0123456789abcdefghijklmnopqrstuvwxyz"

UpperCase == "ABCDEFGHIJKLMNOPQRSTUVWXYZ"

LowerCase == "abcdefghijklmnopqrstuvwxyz"

IsUpper(c) == IndexOf(UpperCase, c, 1) # 0

ToLower(c) == IF IsUpper(c) THEN Char(LowerCase, IndexOf(UpperCase, c, 1)) ELSE c

Primary(c) == IndexOf(CollationOrder, ToLower(c), 1)

RECURSIVE PrimaryCmp(_, _)
PrimaryCmp(a, b) ==
    IF a = "" /\ b = "" THEN 0
    ELSE IF a = "" THEN -1
    ELSE IF b = "" THEN 1
    ELSE IF Primary(Char(a, 1)) < Primary(Char(b, 1)) THEN -1
    ELSE IF Primary(Char(a, 1)) > Primary(Char(b, 1)) THEN 1
    ELSE PrimaryCmp(Rest(a), Rest(b))

RECURSIVE CaseCmp(_, _)
CaseCmp(a, b) ==
    IF a = "" \/ b = "" THEN 0
    ELSE IF ~IsUpper(Char(a, 1)) /\ IsUpper(Char(b, 1)) THEN -1
    ELSE IF IsUpper(Char(a, 1)) /\ ~IsUpper(Char(b, 1)) THEN 1
    ELSE CaseCmp(Rest(a), Rest(b))

localeCompare(a, b) ==
    IF PrimaryCmp(a, b) # 0 THEN PrimaryCmp(a, b) ELSE CaseCmp(a, b)

(***************************************************************************)
(* generateTree (remote-API, clone endpoints, in-browser clone): the sort   *)
(* and the rendered lines.  "+-- " and "|-- " stand for the box-drawing     *)
(* prefixes of the source, which are not ASCII.                             *)
(***************************************************************************)
TreeBefore(a, b) ==
    IF a.isDirectory # b.isDirectory THEN a.isDirectory
    ELSE localeCompare(a.path, b.path) < 0

\* a mutant of SortedEntries: the entries are rendered as enumerated
UnsortedEntries(files) == files

SortedEntries(files) == SortSeq(files, TreeBefore)

RECURSIVE Repeat(_, _)
Repeat(s, n) == IF n = 0 THEN "" ELSE s \o Repeat(s, n - 1)

\* file.path.split('/').pop() || file.path
BaseName(path) ==
    LET parts == Split(path, "/")
    IN  IF parts[Len(parts)] # "" THEN parts[Len(parts)] ELSE path

TreeLine(file) ==
    Repeat("    ", Len(Split(file.path, "/"))) \o "|-- " \o BaseName(file.path)
        \o (IF file.isDirectory THEN "/" ELSE "")

generateTree(files, repoName) ==
    LET sorted == SortedEntries(files)
    IN  <<"Directory structure:", "+-- " \o repoName \o "/">>
            \o [i \in 1..Len(sorted) |-> TreeLine(sorted[i])]

SEPARATOR == Repeat("=", 48)

(***************************************************************************)
(* Bounds of the model and the inputs drawn in Init.                        *)
(***************************************************************************)
\* files of a repository drawn from the catalogue
MaxFiles == 2

\* environment faults (a failed fetch, a failing stat, a throwing callback)
\* per request
MaxFaults == 1

\* 'Receiving objects' progress events per clone
MaxCloneEvents == 1

\* const CONCURRENT_DOWNLOADS = 5
CONCURRENT_DOWNLOADS == 5

\* candidate files, in the order a recursive git tree lists them (bytewise,
\* a directory compared as its name followed by '/')
Catalogue ==
    << "B.ts", "a.ts", "dist/x.js", "src/.gitignore", "src/a.ts", "z.bin" >>

Strategies == {"api", "clone", "client", "legacy"}

\* bytes above which a file is dropped: maxFileSize is in KB, except in the
\* legacy strategy, where it is in bytes
SizeLimit(strat, maxFileSize) ==
    IF strat = "legacy" THEN maxFileSize ELSE maxFileSize * 1024

TextOf(path, size) == IF size = 0 THEN "" ELSE "text of " \o path

\* the sizes a file of the catalogue may have: a.ts is empty, exactly at the
\* size limit or one byte above it, B.ts and src/a.ts are at the limit or one
\* byte above it, the others are at the limit
SizesOf(path, limit) ==
    IF path = "a.ts" THEN {0, limit, limit + 1}
    ELSE IF path \in {"B.ts", "src/a.ts"} THEN {limit, limit + 1}
    ELSE {limit}

\* the repositories: the catalogue's sub-lists of at most MaxFiles files
IndexSets == {ix \in SUBSET (1..Len(Catalogue)) : Cardinality(ix) <= MaxFiles}

RECURSIVE Ascending(_)
Ascending(ix) ==
    IF ix = {} THEN <<>>
    ELSE LET m == CHOOSE m \in ix : \A k \in ix : m <= k
         IN  <<m>> \o Ascending(ix \ {m})

ReposFor(limit) ==
    UNION { { [i \in 1..Len(Ascending(ix)) |->
                 [path |-> Catalogue[Ascending(ix)[i]],
                  size |-> sz[Ascending(ix)[i]]]] :
              sz \in {f \in [ix -> {0, limit, limit + 1}] :
                         \A k \in ix : f[k] \in SizesOf(Catalogue[k], limit)} } :
            ix \in IndexSets }

\* a repository with one file more than a batch holds
Digits == "123456789"

BigRepo(limit) ==
    [i \in 1..(CONCURRENT_DOWNLOADS + 1) |->
        [path |-> "f" \o Char(Digits, i), size |-> limit]]

\* the form's pattern type and pattern text
PatternChoices ==
    { <<"exclude", "">>, <<"include", "">>, <<"include", "*.ts">>,
      <<"exclude", "src">> }

\* references: the canonical one, and malformed, foreign-host and
\* branch/subpath ones
MainRef == "https://github.com/o/r"

OtherRefs ==
    { "o/r", "x", "https://github.com/o", "https://gitlab.com/o/r",
      "github.com/o/r/tree/dev/src", "o/r.git " }

\* a reference with a branch and the subpath 'src', and a repository with a
\* file in 'src', one in its sibling 'src-old' and one at the top
SubpathRef == "github.com/o/r/tree/dev/src"

SiblingRepo ==
    << [path |-> "a.ts", size |-> 1], [path |-> "src-old/a.ts", size |-> 1],
       [path |-> "src/a.ts", size |-> 1] >>

\* branch is IngestOptions.branch ("" when the form's branch field is empty)
Request(ref, pt) ==
    [ref |-> ref, maxFileSize |-> 1, patternType |-> pt[1], pattern |-> pt[2],
     branch |-> ""]

VARIABLES
    strategy,   \* which acquisition strategy serves the request
    pc,         \* the request's position
    req,        \* the request: reference, size limit, patterns
    repo,       \* the remote repository's files
    net,        \* network requests issued so far
    storage,    \* temporary storage: "none", "created", "removed"
    reported,   \* the values passed to onProgress, in order
    treeList,   \* entries collected for the tree
    fileList,   \* files collected for the content
    fetch,      \* remote-API: branch, filtered files, batch and fetch state
    walk,       \* clone strategies: traversal cursor and counters
    outcome,    \* what the caller receives
    faults,     \* environment faults so far
    host,       \* the git host: how it answers, and its default branch
    probe       \* a filter function applied on its own: inputs and verdict

vars ==
    << strategy, pc, req, repo, net, storage, reported, treeList, fileList,
       fetch, walk, outcome, faults, host, probe >>

\* state: "pending", "ok" or "error"; status: the endpoint's HTTP status (0 for
\* a library call); error: the message; hostStatus: the HTTP status with which
\* the git host refused, if it did
Pending == [state |-> "pending", status |-> 0, error |-> "", hostStatus |-> 0,
            tree |-> <<>>, content |-> <<>>, filesAnalyzed |-> 0]

NoFetch == [branch |-> "", filtered |-> <<>>, i |-> 0,
            started |-> {}, completed |-> {}, contents |-> <<>>]

NoWalk == [entries |-> <<>>, cursor |-> 1, totalFiles |-> 0,
           filesProcessed |-> 0, events |-> 0, loaded |-> 0, failed |-> {}]

NoProbe == [path |-> "", includePatterns |-> Absent, excludePatterns |-> Absent,
            applied |-> "none", kept |-> FALSE]

\* the host answers every request from the from-th on with status (200: it
\* serves them all; 0: the connection fails)
HttpStatuses == {200, 401, 403, 404, 500}

DefaultBranches == {"main", "trunk"}

HealthyHost == [status |-> 200, from |-> 1, defaultBranch |-> "main"]

Hosts ==
    [status : HttpStatuses \cup {0}, from : {1, 2, 3}, defaultBranch : DefaultBranches]

\* the status of the next request to the host
Answer == IF net + 1 >= host.from THEN host.status ELSE 200

Init ==
    /\ strategy \in Strategies
    /\ \/ /\ req \in {Request(MainRef, pt) : pt \in PatternChoices}
          /\ repo \in ReposFor(SizeLimit(strategy, 1))
          /\ host = HealthyHost
       \/ /\ req \in {Request(r, <<"exclude", "">>) : r \in OtherRefs \cup {MainRef}}
          /\ repo = <<[path |-> "src/a.ts", size |-> 1]>>
          /\ host \in Hosts
       \/ /\ strategy = "api"
          /\ req = Request(MainRef, <<"exclude", "">>)
          /\ repo = BigRepo(SizeLimit(strategy, 1))
          /\ host = HealthyHost
       \/ /\ strategy = "api"
          /\ req = [Request(MainRef, <<"exclude", "">>) EXCEPT !.branch = "dev"]
          /\ repo = <<[path |-> "src/a.ts", size |-> 1]>>
          /\ host \in {h \in Hosts : h.status = 200}
       \/ /\ strategy = "api"
          /\ req = Request(SubpathRef, <<"exclude", "">>)
          /\ repo \in {SelectSeq(SiblingRepo, LAMBDA f : f.path \in keep) :
                         keep \in SUBSET {"src-old/a.ts", "src/a.ts", "a.ts"}}
          /\ host = HealthyHost
    /\ pc = "start"
    /\ net = 0
    /\ storage = "none"
    /\ reported = <<>>
    /\ treeList = <<>>
    /\ fileList = <<>>
    /\ fetch = NoFetch
    /\ walk = NoWalk
    /\ outcome = Pending
    /\ faults = 0
    /\ probe = NoProbe

\* a progress value n/d; d = 0 stands for a value that is not finite
Frac(n, d) == [n |-> n, d |-> d]

Whole(n) == Frac(n, 1)

Report(log, values) == log \o values

\* the request ends
Settle(o) == outcome' = o /\ pc' = "done"

Failure(status, message, hostStatus) ==
    [Pending EXCEPT !.state = "error", !.status = status, !.error = message,
                    !.hostStatus = hostStatus]

Success(status, tree, content, count) ==
    [Pending EXCEPT !.state = "ok", !.status = status, !.tree = tree,
                    !.content = content, !.filesAnalyzed = count]

(***************************************************************************)
(* The remote-API strategy: ingestRepository of src/lib/ingest.ts.          *)
(***************************************************************************)
AncestorsOf(path) ==
    LET segs == Split(path, "/")
    IN  [k \in 1..(Len(segs) - 1) |-> JoinWith(SubSeq(segs, 1, k), "/")]

Range(f) == {f[i] : i \in DOMAIN f}

\* the recursive tree listing of a repository: every directory as a 'tree'
\* item before its children, every file as a 'blob' item
RECURSIVE TreeItems(_, _, _)
TreeItems(files, i, seen) ==
    IF i > Len(files) THEN <<>>
    ELSE LET anc  == AncestorsOf(files[i].path)
             new  == SelectSeq(anc, LAMBDA d : d \notin seen)
         IN  [k \in 1..Len(new) |-> [path |-> new[k], type |-> "tree", size |-> 0]]
                 \o <<[path |-> files[i].path, type |-> "blob", size |-> files[i].size]>>
                 \o TreeItems(files, i + 1, seen \cup Range(anc))

RequestOptions == BuildOptions(req.patternType, req.pattern)

\* a mutant of ApiKeeps: a file exactly at the limit is dropped too
ApiKeepsDroppingAtLimit(item, subpath, maxFileSize, options) ==
    /\ item.type = "blob"
    /\ ~(subpath # None /\ ~StartsWith(item.path, subpath[1]))
    /\ ~(item.size >= maxFileSize * 1024)
    /\ shouldIncludeFile(item.path, options.includePatterns, options.excludePatterns)

\* Step 4: the filter over treeData.tree
ApiKeeps(item, subpath, maxFileSize, options) ==
    /\ item.type = "blob"
    /\ ~(subpath # None /\ ~StartsWith(item.path, subpath[1]))
    /\ ~(item.size > maxFileSize * 1024)
    /\ shouldIncludeFile(item.path, options.includePatterns, options.excludePatterns)

ApiFiltered(tree, subpath, maxFileSize, options) ==
    SelectSeq(tree, LAMBDA item : ApiKeeps(item, subpath, maxFileSize, options))

ApiTreeList(tree, filtered, subpath) ==
    LET shown == SelectSeq(tree, LAMBDA item :
                     /\ ~(subpath # None /\ ~StartsWith(item.path, subpath[1]))
                     /\ \/ item.type = "tree"
                        \/ \E k \in 1..Len(filtered) : filtered[k].path = item.path)
    IN  [k \in 1..Len(shown) |->
            [path |-> shown[k].path, isDirectory |-> shown[k].type = "tree"]]

\* parseGitUrl, the host check, and (when the reference names a branch) the
\* first progress report
ApiResolve ==
    /\ strategy = "api" /\ pc = "start"
    /\ LET parsed == apiParseGitUrl(req.ref)
       IN  IF ~parsed.ok
           THEN /\ Settle(Failure(0, "Invalid Git repository URL", 0))
                /\ UNCHANGED <<fetch, reported>>
           ELSE IF ~Includes(parsed.host, "github")
           THEN /\ Settle(Failure(0, "Only GitHub repositories are supported", 0))
                /\ UNCHANGED <<fetch, reported>>
           ELSE IF parsed.branch # None
           THEN /\ fetch' = [fetch EXCEPT !.branch = parsed.branch[1]]
                /\ reported' = Report(reported, <<Whole(10)>>)
                /\ pc' = "ref"
                /\ UNCHANGED outcome
           ELSE /\ fetch' = [fetch EXCEPT !.branch = "main"]
                /\ pc' = "repo"
                /\ UNCHANGED <<outcome, reported>>
    /\ UNCHANGED <<strategy, req, repo, net, storage, treeList, fileList, walk,
                   faults, host, probe>>

\* Step 1: GET /repos/owner/repo; any failure falls back to 'main'
ApiRepoResponse ==
    /\ strategy = "api" /\ pc = "repo"
    /\ net' = net + 1
    /\ fetch' = [fetch EXCEPT !.branch = IF Answer = 200 THEN host.defaultBranch ELSE @]
    /\ reported' = Report(reported, <<Whole(10)>>)
    /\ pc' = "ref"
    /\ UNCHANGED <<strategy, req, repo, storage, treeList, fileList, walk,
                   outcome, faults, host, probe>>

\* Step 2: GET /git/ref/heads/<branch>
ApiRefResponse ==
    /\ strategy = "api" /\ pc = "ref"
    /\ net' = net + 1
    /\ IF Answer = 0
       THEN /\ Settle(Failure(0, "Failed to fetch", 0))
            /\ UNCHANGED reported
       ELSE IF Answer # 200
       THEN /\ Settle(Failure(0, "Failed to fetch branch", Answer))
            /\ UNCHANGED reported
       ELSE /\ reported' = Report(reported, <<Whole(20)>>)
            /\ pc' = "tree"
            /\ UNCHANGED outcome
    /\ UNCHANGED <<strategy, req, repo, storage, treeList, fileList, fetch,
                   walk, faults, host, probe>>

\* Step 3 and Step 4: GET /git/trees/<sha>?recursive=1, then the filter
ApiTreeResponse ==
    /\ strategy = "api" /\ pc = "tree"
    /\ net' = net + 1
    /\ IF Answer = 0
       THEN /\ Settle(Failure(0, "Failed to fetch", 0))
            /\ UNCHANGED <<reported, fetch, treeList>>
       ELSE IF Answer # 200
       THEN /\ Settle(Failure(0, "Failed to fetch tree", Answer))
            /\ UNCHANGED <<reported, fetch, treeList>>
       ELSE LET tree     == TreeItems(repo, 1, {})
                subpath  == apiParseGitUrl(req.ref).path
                filtered == ApiFiltered(tree, subpath, req.maxFileSize, RequestOptions)
            IN  /\ fetch' = [fetch EXCEPT !.filtered = filtered]
                /\ treeList' = ApiTreeList(tree, filtered, subpath)
                /\ reported' = Report(reported, <<Whole(40), Whole(50)>>)
                /\ pc' = "batch"
                /\ UNCHANGED outcome
    /\ UNCHANGED <<strategy, req, repo, storage, fileList, walk, faults, host, probe>>

\* a mutant of BatchOf: every remaining file is fetched at once
BatchOfAllRemaining(i, n) == {k \in 1..n : i < k}

\* the indices (1-based) of the batch that starts after i files
BatchOf(i, n) == {k \in 1..n : i < k /\ k <= i + CONCURRENT_DOWNLOADS}

\* Step 5, batch.map(...): every fetch of the batch is issued
ApiStartBatch ==
    /\ strategy = "api" /\ pc = "batch"
    /\ fetch.i < Len(fetch.filtered)
    /\ LET batch == BatchOf(fetch.i, Len(fetch.filtered))
       IN  /\ fetch' = [fetch EXCEPT !.started = @ \cup batch, !.contents = <<>>]
           /\ net' = net + Cardinality(batch)
    /\ pc' = "await"
    /\ UNCHANGED <<strategy, req, repo, storage, reported, treeList, fileList, walk,
                   outcome, faults, host, probe>>

\* what one fetch of raw.githubusercontent.com yields
FetchedContent(file, how) ==
    [path |-> file.path, isDirectory |-> FALSE, size |-> file.size,
     content |-> IF how = "ok" THEN TextOf(file.path, file.size)
                 ELSE IF how = "notok" THEN "[Failed to fetch: ]"
                 ELSE "[Binary or failed to decode]"]

\* one outstanding fetch completes: with the text, with a status that is not
\* ok, or by throwing
ApiFetchDone(k) ==
    /\ strategy = "api" /\ pc = "await"
    /\ k \in fetch.started \ fetch.completed
    /\ \E how \in {"ok", "notok", "throw"} :
          /\ how # "ok" => faults < MaxFaults
          /\ faults' = IF how = "ok" THEN faults ELSE faults + 1
          /\ fetch' = [fetch EXCEPT
                          !.completed = @ \cup {k},
                          !.contents = (k :> FetchedContent(fetch.filtered[k], how)) @@ @]
    /\ UNCHANGED <<strategy, pc, req, repo, net, storage, reported, treeList, fileList,
                   walk, outcome, host, probe>>

BatchProgress(i, batchLength, n) == 50 + ((i + batchLength) * 45) \div n

\* a mutant of ApiBatchDone: a fetch that did not yield the text rejects the
\* batch, and the rejection fails the request
ApiBatchDoneRejecting ==
    /\ strategy = "api" /\ pc = "await"
    /\ fetch.started = fetch.completed
    /\ LET n     == Len(fetch.filtered)
           batch == BatchOf(fetch.i, n)
       IN  IF \E k \in batch : fetch.contents[k].content
                                  \in {"[Failed to fetch: ]", "[Binary or failed to decode]"}
           THEN /\ Settle(Failure(0, "Failed to fetch", 0))
                /\ UNCHANGED <<fileList, reported, fetch>>
           ELSE /\ fileList' = fileList \o [j \in 1..Cardinality(batch) |-> fetch.contents[fetch.i + j]]
                /\ reported' = Report(reported,
                                      <<Whole(BatchProgress(fetch.i, Cardinality(batch), n))>>)
                /\ fetch' = [fetch EXCEPT !.i = @ + CONCURRENT_DOWNLOADS, !.contents = <<>>]
                /\ pc' = "batch"
                /\ UNCHANGED outcome
    /\ UNCHANGED <<strategy, req, repo, net, storage, treeList, walk,
                   faults, host, probe>>

\* Promise.all resolves: the batch's contents are appended in batch order and
\* the progress is reported
ApiBatchDone ==
    /\ strategy = "api" /\ pc = "await"
    /\ fetch.started = fetch.completed
    /\ LET n     == Len(fetch.filtered)
           batch == BatchOf(fetch.i, n)
       IN  /\ fileList' = fileList \o [j \in 1..Cardinality(batch) |-> fetch.contents[fetch.i + j]]
           /\ reported' = Report(reported,
                                 <<Whole(BatchProgress(fetch.i, Cardinality(batch), n))>>)
           /\ fetch' = [fetch EXCEPT !.i = @ + CONCURRENT_DOWNLOADS, !.contents = <<>>]
    /\ pc' = "batch"
    /\ UNCHANGED <<strategy, req, repo, net, storage, treeList, walk, outcome,
                   faults, host, probe>>

\* the five parts pushed for one file
Block(header, file) == <<SEPARATOR, header \o file.path, SEPARATOR, file.content, "">>

RECURSIVE Blocks(_, _)
Blocks(header, files) ==
    IF files = <<>> THEN <<>>
    ELSE Block(header, Head(files)) \o Blocks(header, Tail(files))

\* the remote-API content: a file whose content is the empty string is left out
ApiContent(files) ==
    Blocks("File: ", SelectSeq(files, LAMBDA f : ~f.isDirectory /\ f.content # ""))

\* the loop is over: tree, content, summary, and the last two reports
ApiFinish ==
    /\ strategy = "api" /\ pc = "batch"
    /\ fetch.i >= Len(fetch.filtered)
    /\ reported' = Report(reported, <<Whole(95), Whole(100)>>)
    /\ Settle(Success(0, generateTree(treeList, apiParseGitUrl(req.ref).repo),
                      ApiContent(fileList), Len(fileList)))
    /\ UNCHANGED <<strategy, req, repo, net, storage, treeList, fileList, fetch, walk,
                   faults, host, probe>>

(***************************************************************************)
(* What the clone strategies share: the cloned working tree, the traversal  *)
(* order, and git's error messages.                                         *)
(***************************************************************************)
\* the cloned directory: git's own .git directory, then the repository's
\* entries, each directory before its children (the order readdir yields)
WorkTree(files) ==
    << [path |-> ".git", type |-> "tree", size |-> 0],
       [path |-> ".git/HEAD", type |-> "blob", size |-> 1] >>
        \o TreeItems(files, 1, {})

\* the traversal reaches an entry when it descended into all its parents
Descended(list) == {list[i].path : i \in {j \in DOMAIN list : list[j].isDirectory}}

\* a mutant of Visited: the traversal also enters the directories it skipped
VisitedRegardless(path, list) == TRUE

\* an entry is visited when every directory above it was listed
Visited(path, list) == Range(AncestorsOf(path)) \subseteq Descended(list)

\* the message of the error git.clone throws when the host answers status
\* (native git through simple-git)
GitCliMessage(status) ==
    CASE status = 401 -> "fatal: Authentication failed for 'https://github.com/o/r/'"
      [] status = 403 -> "fatal: unable to access 'https://github.com/o/r/': The requested URL returned error: 403"
      [] status = 404 -> "remote: Repository not found."
      [] status = 500 -> "fatal: unable to access 'https://github.com/o/r/': The requested URL returned error: 500"
      [] OTHER        -> "fatal: unable to access 'https://github.com/o/r/': Could not resolve host"

\* the message of the error isomorphic-git's clone throws
IsoGitMessage(status) ==
    CASE status = 401 -> "HTTP Error: 401 Unauthorized"
      [] status = 403 -> "HTTP Error: 403 Forbidden"
      [] status = 404 -> "HTTP Error: 404 Not Found"
      [] status = 500 -> "HTTP Error: 500 Internal Server Error"
      [] OTHER        -> "Failed to fetch"

\* ignore().add(DEFAULT_IGNORE_PATTERNS), then the exclude patterns if any
IgnoreList(options) ==
    DEFAULT_IGNORE_PATTERNS
        \o (IF HasLength(options.excludePatterns) THEN options.excludePatterns.pats
            ELSE <<>>)

\* readDirRecursive's three early 'continue's: TRUE when the entry is skipped
WalkSkips(relPath, options) ==
    \/ StartsWith(relPath, ".git")
    \/ IgIgnores(relPath, IgnoreList(options))
    \/ /\ HasLength(options.includePatterns)
       /\ ~\E i \in 1..Len(options.includePatterns.pats) :
              UnanchoredTest(relPath, options.includePatterns.pats[i])

TreeEntry(e) == [path |-> e.path, isDirectory |-> e.type = "tree"]

FileRecord(e, content) == [path |-> e.path, content |-> content, size |-> e.size]

\* a mutant of Cleanup: the removal sits at the end of the try block, so a
\* request that already failed skips it
CleanupUnlessFailed ==
    IF storage = "created" /\ outcome.state # "error"
    THEN storage' \in {"removed", "leftover"}
    ELSE UNCHANGED storage

\* the removal of the temporary storage: it succeeds or it fails, and a
\* failure is logged and swallowed
Cleanup ==
    IF storage = "created"
    THEN storage' \in {"removed", "leftover"}
    ELSE UNCHANGED storage

(***************************************************************************)
(* The clone endpoint: POST of src/app/api/ingest/route.ts (native git into *)
(* a temporary directory).                                                  *)
(***************************************************************************)
\* the status the endpoint answers a failed clone with (0: the error is
\* thrown on, to the outer catch)
CloneErrorStatus(errorMessage) ==
    IF Includes(errorMessage, "Authentication failed")
       \/ Includes(errorMessage, "access denied")
    THEN 401
    ELSE IF Includes(errorMessage, "not found")
            \/ Includes(errorMessage, "does not exist")
    THEN 404
    ELSE 0

\* a mutant of CloneStart: the temporary directory is made before the
\* reference is parsed
CloneStartStorageFirst ==
    /\ strategy = "clone" /\ pc = "start"
    /\ storage' = "created"
    /\ IF ~routeParseGitUrl(req.ref).ok
       THEN /\ outcome' = Failure(400, "Invalid repository URL", 0)
            /\ pc' = "finally"
       ELSE /\ pc' = "clone"
            /\ UNCHANGED outcome
    /\ UNCHANGED <<strategy, req, repo, net, reported, treeList, fileList, fetch, walk,
                   faults, host, probe>>

\* parseGitUrl; on success mkdtemp
CloneStart ==
    /\ strategy = "clone" /\ pc = "start"
    /\ IF ~routeParseGitUrl(req.ref).ok
       THEN /\ outcome' = Failure(400, "Invalid repository URL", 0)
            /\ pc' = "finally"
            /\ UNCHANGED storage
       ELSE /\ storage' = "created"
            /\ pc' = "clone"
            /\ UNCHANGED outcome
    /\ UNCHANGED <<strategy, req, repo, net, reported, treeList, fileList, fetch, walk,
                   faults, host, probe>>

\* git.clone and the handling of its error
CloneGit ==
    /\ strategy = "clone" /\ pc = "clone"
    /\ net' = net + 1
    /\ IF Answer = 200
       THEN /\ walk' = [walk EXCEPT !.entries = WorkTree(repo), !.cursor = 1]
            /\ pc' = "walk"
            /\ UNCHANGED outcome
       ELSE LET errorMessage == GitCliMessage(Answer)
                status       == CloneErrorStatus(errorMessage)
            IN  /\ outcome' =
                      IF status = 401
                      THEN Failure(401, "Authentication failed. Check your token and repository access.", Answer)
                      ELSE IF status = 404
                      THEN Failure(404, "Repository not found. Check the URL and try again.", Answer)
                      ELSE Failure(500, errorMessage, Answer)
                /\ pc' = "finally"
                /\ UNCHANGED walk
    /\ UNCHANGED <<strategy, req, repo, storage, reported, treeList, fileList, fetch,
                   faults, host, probe>>

\* one entry of readDirRecursive
CloneStep ==
    /\ strategy = "clone" /\ pc = "walk"
    /\ walk.cursor <= Len(walk.entries)
    /\ LET e == walk.entries[walk.cursor]
       IN  IF ~Visited(e.path, treeList) \/ WalkSkips(e.path, RequestOptions)
           THEN /\ walk' = [walk EXCEPT !.cursor = @ + 1]
                /\ UNCHANGED <<treeList, fileList, outcome, pc, faults>>
           ELSE IF e.type = "tree"
           THEN /\ treeList' = Append(treeList, TreeEntry(e))
                /\ walk' = [walk EXCEPT !.cursor = @ + 1]
                /\ UNCHANGED <<fileList, outcome, pc, faults>>
           ELSE \/ \* stat throws (a dangling link): the traversal is abandoned
                   /\ faults < MaxFaults
                   /\ faults' = faults + 1
                   /\ outcome' = Failure(500, "ENOENT: no such file or directory, stat", 0)
                   /\ pc' = "finally"
                   /\ UNCHANGED <<walk, treeList, fileList>>
                \/ \* the file is larger than the limit
                   /\ e.size > req.maxFileSize * 1024
                   /\ walk' = [walk EXCEPT !.cursor = @ + 1]
                   /\ UNCHANGED <<treeList, fileList, outcome, pc, faults>>
                \/ \* the file is read
                   /\ ~(e.size > req.maxFileSize * 1024)
                   /\ treeList' = Append(treeList, TreeEntry(e))
                   /\ fileList' = Append(fileList, FileRecord(e, TextOf(e.path, e.size)))
                   /\ walk' = [walk EXCEPT !.cursor = @ + 1]
                   /\ UNCHANGED <<outcome, pc, faults>>
                \/ \* readFile throws: the sentinel takes the content's place
                   /\ ~(e.size > req.maxFileSize * 1024)
                   /\ faults < MaxFaults
                   /\ faults' = faults + 1
                   /\ treeList' = Append(treeList, TreeEntry(e))
                   /\ fileList' = Append(fileList, FileRecord(e, "[Binary file]"))
                   /\ walk' = [walk EXCEPT !.cursor = @ + 1]
                   /\ UNCHANGED <<outcome, pc>>
    /\ UNCHANGED <<strategy, req, repo, net, storage, reported, fetch, host, probe>>

\* the traversal is over: tree, content, summary, and the 200 response
CloneRespond ==
    /\ strategy = "clone" /\ pc = "walk"
    /\ walk.cursor > Len(walk.entries)
    /\ outcome' = Success(200, generateTree(treeList, routeParseGitUrl(req.ref).repo),
                          Blocks("File: ", fileList), Len(fileList))
    /\ pc' = "finally"
    /\ UNCHANGED <<strategy, req, repo, net, storage, reported, treeList, fileList, fetch,
                   walk, faults, host, probe>>

\* a mutant of CloneFinally: the removal is not guarded, and its failure
\* becomes the response
CloneFinallySurfacing ==
    /\ strategy = "clone" /\ pc = "finally"
    /\ Cleanup
    /\ outcome' = IF storage' = "leftover"
                  THEN Failure(500, "ENOTEMPTY: directory not empty, rm", 0)
                  ELSE outcome
    /\ pc' = "done"
    /\ UNCHANGED <<strategy, req, repo, net, reported, treeList, fileList, fetch, walk,
                   faults, host, probe>>

\* the finally block: rm(tempDir) when a directory was made
CloneFinally ==
    /\ strategy = "clone" /\ pc = "finally"
    /\ Cleanup
    /\ pc' = "done"
    /\ UNCHANGED <<strategy, req, repo, net, reported, treeList, fileList, fetch, walk,
                   outcome, faults, host, probe>>

CloneNext ==
    \/ CloneStart
    \/ CloneGit
    \/ CloneStep
    \/ CloneRespond
    \/ CloneFinally

(***************************************************************************)
(* The in-browser clone strategy: ingestRepositoryClient (isomorphic-git    *)
(* into a LightningFS file system).                                         *)
(***************************************************************************)
\* objects in the pack a clone receives (event.total)
CloneTotal == 2

\* a file whose bytes are not valid UTF-8
IsBinary(path) == EndsWith(path, ".bin")

\* countFiles: a directory named '.git' is not entered, an entry whose name
\* starts with '.git' is not counted
CountFiles(entries) ==
    Cardinality({i \in DOMAIN entries :
        /\ entries[i].type = "blob"
        /\ \A d \in Range(AncestorsOf(entries[i].path)) : BaseName(d) # ".git"
        /\ ~StartsWith(BaseName(entries[i].path), ".git")})

\* the error the catch block throws for the clone's error message
ClientErrorMessage(errorMessage) ==
    IF Includes(errorMessage, "CORS") \/ Includes(errorMessage, "cors")
    THEN "CORS Error: Unable to access repository."
    ELSE IF Includes(errorMessage, "401") \/ Includes(errorMessage, "authentication")
    THEN "Authentication failed. Please check:"
    ELSE IF Includes(errorMessage, "404") \/ Includes(errorMessage, "not found")
    THEN "Repository not found. Please check:"
    ELSE "Failed to clone repository: " \o errorMessage

\* parseGitUrl, onProgress(5), new FS(fsName), onProgress(10)
ClientStart ==
    /\ strategy = "client" /\ pc = "start"
    /\ IF ~clientParseGitUrl(req.ref).ok
       THEN /\ Settle(Failure(0, "Invalid repository URL. Use format: owner/repo or https://github.com/owner/repo", 0))
            /\ UNCHANGED <<storage, reported>>
       ELSE /\ reported' = Report(reported, <<Whole(5), Whole(10)>>)
            /\ storage' = "created"
            /\ pc' = "clone"
            /\ UNCHANGED outcome
    /\ UNCHANGED <<strategy, req, repo, net, treeList, fileList, fetch, walk,
                   faults, host, probe>>

\* git.clone's onProgress: a 'Receiving objects' event; each one reports
\* more objects loaded than the one before
ClientCloneEvent ==
    /\ strategy = "client" /\ pc = "clone"
    /\ Answer = 200
    /\ walk.events < MaxCloneEvents
    /\ \E loaded \in (walk.loaded + 1)..CloneTotal :
          /\ walk' = [walk EXCEPT !.events = @ + 1, !.loaded = loaded]
          /\ reported' = Report(reported,
                                <<Frac(10 * CloneTotal + loaded * 30, CloneTotal)>>)
    /\ UNCHANGED <<strategy, pc, req, repo, net, storage, treeList, fileList, fetch,
                   outcome, faults, host, probe>>

\* git.clone settles: on success onProgress(45) and countFiles; on failure the
\* catch block (cleanup, then the error by its message)
ClientCloneDone ==
    /\ strategy = "client" /\ pc = "clone"
    /\ net' = net + 1
    /\ IF Answer = 200
       THEN /\ reported' = Report(reported, <<Whole(45)>>)
            /\ walk' = [walk EXCEPT !.entries = WorkTree(repo), !.cursor = 1,
                                    !.totalFiles = CountFiles(WorkTree(repo)),
                                    !.filesProcessed = 0]
            /\ pc' = "walk"
            /\ UNCHANGED <<outcome, storage>>
       ELSE /\ Cleanup
            /\ Settle(Failure(0, ClientErrorMessage(IsoGitMessage(Answer)), Answer))
            /\ UNCHANGED <<reported, walk>>
    /\ UNCHANGED <<strategy, req, repo, treeList, fileList, fetch, faults, host, probe>>

FileProgress(filesProcessed, totalFiles) ==
    Frac(45 * totalFiles + filesProcessed * 45, totalFiles)

\* one entry of readDirRecursive
ClientStep ==
    /\ strategy = "client" /\ pc = "walk"
    /\ walk.cursor <= Len(walk.entries)
    /\ LET e == walk.entries[walk.cursor]
       IN  IF ~Visited(e.path, treeList) \/ WalkSkips(e.path, RequestOptions)
           THEN /\ walk' = [walk EXCEPT !.cursor = @ + 1]
                /\ UNCHANGED <<treeList, fileList, reported, faults, outcome, pc, storage>>
           ELSE IF e.type = "tree"
           THEN /\ treeList' = Append(treeList, TreeEntry(e))
                /\ walk' = [walk EXCEPT !.cursor = @ + 1]
                /\ UNCHANGED <<fileList, reported, faults, outcome, pc, storage>>
           ELSE \/ \* stat throws: the entry is passed over
                   /\ faults < MaxFaults
                   /\ faults' = faults + 1
                   /\ walk' = [walk EXCEPT !.cursor = @ + 1,
                                           !.failed = @ \cup {e.path}]
                   /\ UNCHANGED <<treeList, fileList, reported, outcome, pc, storage>>
                \/ \* the progress callback throws: the catch block
                   /\ faults < MaxFaults
                   /\ faults' = faults + 1
                   /\ Cleanup
                   /\ Settle(Failure(0, ClientErrorMessage("callback failed"), 0))
                   /\ UNCHANGED <<walk, treeList, fileList, reported>>
                \/ \* the file is counted and reported, then kept or dropped
                   /\ walk' = [walk EXCEPT !.cursor = @ + 1, !.filesProcessed = @ + 1]
                   /\ reported' = Report(reported,
                          <<FileProgress(walk.filesProcessed + 1, walk.totalFiles)>>)
                   /\ IF e.size > req.maxFileSize * 1024
                      THEN UNCHANGED <<treeList, fileList>>
                      ELSE /\ treeList' = Append(treeList, TreeEntry(e))
                           /\ fileList' = Append(fileList,
                                  FileRecord(e, IF IsBinary(e.path)
                                                THEN "[Binary file - content not included]"
                                                ELSE TextOf(e.path, e.size)))
                   /\ UNCHANGED <<faults, outcome, pc, storage>>
    /\ UNCHANGED <<strategy, req, repo, net, fetch, host, probe>>

\* the traversal is over: onProgress(95), tree, content, summary,
\* onProgress(100), the cleanup, and the result
ClientFinish ==
    /\ strategy = "client" /\ pc = "walk"
    /\ walk.cursor > Len(walk.entries)
    /\ reported' = Report(reported, <<Whole(95), Whole(100)>>)
    /\ Cleanup
    /\ Settle(Success(0, generateTree(treeList, clientParseGitUrl(req.ref).repo),
                      Blocks("FILE: ", fileList), Len(fileList)))
    /\ UNCHANGED <<strategy, req, repo, net, treeList, fileList, fetch, walk,
                   faults, host, probe>>

ClientNext ==
    \/ ClientStart
    \/ ClientCloneEvent
    \/ ClientCloneDone
    \/ ClientStep
    \/ ClientFinish

(***************************************************************************)
(* The legacy endpoint: the first POST of route.ts, with lib/parser,        *)
(* lib/git and the disk ingestRepository (scanDirectory).                   *)
(***************************************************************************)
\* generateTree of the legacy strategy
legacyTreeLine(file) ==
    LET depth == Len(Split(file.path, "/")) - 1
    IN  Repeat("  ", depth) \o (IF depth > 0 THEN "|-- " ELSE "")
            \o BaseName(file.path) \o (IF file.isDirectory THEN "/" ELSE "")

legacyGenerateTree(files) ==
    LET sorted == SortedEntries(files)
    IN  <<"Directory structure:">> \o [i \in 1..Len(sorted) |-> legacyTreeLine(sorted[i])]

\* parseGitUrl (it throws on a bad reference), createTempDir and mkdir
LegacyStart ==
    /\ strategy = "legacy" /\ pc = "start"
    /\ IF ~legacyParseGitUrl(req.ref).ok
       THEN /\ outcome' = Failure(500, "Invalid repository URL", 0)
            /\ pc' = "finally"
            /\ UNCHANGED storage
       ELSE /\ storage' = "created"
            /\ pc' = "clone"
            /\ UNCHANGED outcome
    /\ UNCHANGED <<strategy, req, repo, net, reported, treeList, fileList, fetch, walk,
                   faults, host, probe>>

\* cloneRepository: an error of git.clone reaches the catch block
LegacyClone ==
    /\ strategy = "legacy" /\ pc = "clone"
    /\ net' = net + 1
    /\ IF Answer = 200
       THEN /\ walk' = [walk EXCEPT !.entries = WorkTree(repo), !.cursor = 1]
            /\ pc' = "walk"
            /\ UNCHANGED outcome
       ELSE /\ outcome' = Failure(500, GitCliMessage(Answer), Answer)
            /\ pc' = "finally"
            /\ UNCHANGED walk
    /\ UNCHANGED <<strategy, req, repo, storage, reported, treeList, fileList, fetch,
                   faults, host, probe>>

\* one entry of scanDirectory (the repository holds no .gitignore)
LegacyStep ==
    /\ strategy = "legacy" /\ pc = "walk"
    /\ walk.cursor <= Len(walk.entries)
    /\ LET e == walk.entries[walk.cursor]
           o == RequestOptions
       IN  IF \/ ~Visited(e.path, treeList)
              \/ ~scanKeeps(e.path, <<>>, o.includePatterns, o.excludePatterns)
           THEN /\ walk' = [walk EXCEPT !.cursor = @ + 1]
                /\ UNCHANGED <<treeList, fileList, outcome, pc, faults>>
           ELSE IF e.type = "tree"
           THEN /\ treeList' = Append(treeList, TreeEntry(e))
                /\ walk' = [walk EXCEPT !.cursor = @ + 1]
                /\ UNCHANGED <<fileList, outcome, pc, faults>>
           ELSE \/ \* stat throws: the scan is abandoned
                   /\ faults < MaxFaults
                   /\ faults' = faults + 1
                   /\ outcome' = Failure(500, "ENOENT: no such file or directory, stat", 0)
                   /\ pc' = "finally"
                   /\ UNCHANGED <<walk, treeList, fileList>>
                \/ \* the file is kept unless larger than maxFileSize bytes
                   /\ walk' = [walk EXCEPT !.cursor = @ + 1]
                   /\ IF e.size > req.maxFileSize
                      THEN UNCHANGED <<treeList, fileList>>
                      ELSE /\ treeList' = Append(treeList, TreeEntry(e))
                           /\ fileList' = Append(fileList,
                                                 FileRecord(e, TextOf(e.path, e.size)))
                   /\ UNCHANGED <<outcome, pc, faults>>
    /\ UNCHANGED <<strategy, req, repo, net, storage, reported, fetch, host, probe>>

\* the scan is over: generateTree, generateContent, generateSummary, and the
\* 200 response
LegacyRespond ==
    /\ strategy = "legacy" /\ pc = "walk"
    /\ walk.cursor > Len(walk.entries)
    /\ outcome' = Success(200, legacyGenerateTree(treeList), Blocks("FILE: ", fileList),
                          Len(fileList))
    /\ pc' = "finally"
    /\ UNCHANGED <<strategy, req, repo, net, storage, reported, treeList, fileList, fetch,
                   walk, faults, host, probe>>

\* the finally block: fs.rm(tempDir) when a directory was made
LegacyFinally ==
    /\ strategy = "legacy" /\ pc = "finally"
    /\ Cleanup
    /\ pc' = "done"
    /\ UNCHANGED <<strategy, req, repo, net, reported, treeList, fileList, fetch, walk,
                   outcome, faults, host, probe>>

LegacyNext ==
    \/ LegacyStart
    \/ LegacyClone
    \/ LegacyStep
    \/ LegacyRespond
    \/ LegacyFinally

ApiNext ==
    \/ ApiResolve
    \/ ApiRepoResponse
    \/ ApiRefResponse
    \/ ApiTreeResponse
    \/ ApiStartBatch
    \/ \E k \in 1..(Len(Catalogue) + CONCURRENT_DOWNLOADS) : ApiFetchDone(k)
    \/ ApiBatchDone
    \/ ApiFinish

Next == ApiNext \/ CloneNext \/ ClientNext \/ LegacyNext

Spec == Init /\ [][Next]_vars

(***************************************************************************)
(* The filter functions on their own: a path and two pattern options go in, *)
(* the verdict comes out.                                                   *)
(***************************************************************************)
FilterPaths ==
    { "a.ts", "a.png", "src/a.ts", "dist/x.js", "node_modules/m.js",
      "src/builder.ts", "README.md", "x.log", ".github/x.yml", "src/.gitignore" }

\* pattern options as a caller may pass them, and as the endpoints build them
\* from the form's pattern type and text
PatternOptions ==
    { Absent, Given(<<>>), Given(<<"*.ts">>), Given(<<"*.png">>),
      Given(<<"dist">>), Given(<<"*.md", "x.log">>) }
        \cup {BuildOptions(pt[1], pt[2]).includePatterns : pt \in PatternChoices}
        \cup {BuildOptions(pt[1], pt[2]).excludePatterns : pt \in PatternChoices}

FilterInit ==
    /\ strategy = "none"
    /\ pc = "idle"
    /\ req = Request(MainRef, <<"exclude", "">>)
    /\ repo = <<>>
    /\ host = HealthyHost
    /\ net = 0
    /\ storage = "none"
    /\ reported = <<>>
    /\ treeList = <<>>
    /\ fileList = <<>>
    /\ fetch = NoFetch
    /\ walk = NoWalk
    /\ outcome = Pending
    /\ faults = 0
    /\ probe \in [path : FilterPaths, includePatterns : PatternOptions,
                  excludePatterns : PatternOptions, applied : {"none"}, kept : {FALSE}]

\* shouldIncludeFile(path, includePatterns, excludePatterns)
ApplyShouldIncludeFile ==
    /\ probe.applied = "none"
    /\ probe' = [probe EXCEPT
                    !.applied = "shouldIncludeFile",
                    !.kept = shouldIncludeFile(probe.path, probe.includePatterns,
                                               probe.excludePatterns)]
    /\ UNCHANGED <<strategy, pc, req, repo, net, storage, reported, treeList, fileList,
                   fetch, walk, outcome, faults, host>>

\* scanDirectory's checks on one entry of a directory without .gitignore
ApplyScanDirectory ==
    /\ probe.applied = "none"
    /\ probe' = [probe EXCEPT
                    !.applied = "scanDirectory",
                    !.kept = scanKeeps(probe.path, <<>>, probe.includePatterns,
                                       probe.excludePatterns)]
    /\ UNCHANGED <<strategy, pc, req, repo, net, storage, reported, treeList, fileList,
                   fetch, walk, outcome, faults, host>>

FilterNext == ApplyShouldIncludeFile \/ ApplyScanDirectory

SpecFilter == FilterInit /\ [][FilterNext]_vars

(***************************************************************************)
(* Properties of the ingestion strategies.                                  *)
(***************************************************************************)
\* x <= y for progress values with positive denominators
FracLeq(x, y) == x.n * y.d <= y.n * x.d

\* a finite progress value within 0..100
InRange(x) == x.d > 0 /\ 0 <= x.n /\ x.n <= 100 * x.d

\* the resolver each strategy applies to the reference
ParseFor(strat, ref) ==
    CASE strat = "api"    -> apiParseGitUrl(ref)
      [] strat = "clone"  -> routeParseGitUrl(ref)
      [] strat = "client" -> clientParseGitUrl(ref)
      [] OTHER            -> legacyParseGitUrl(ref)

\* bytes above which the running strategy drops a file
Limit == SizeLimit(strategy, req.maxFileSize)

\* the file at path, and every directory above it where the strategy walks
\* directories, gets through the strategy's pattern filter
PassesFilter(path) ==
    LET o     == RequestOptions
        chain == Range(AncestorsOf(path)) \cup {path}
    IN  CASE strategy = "api" ->
               /\ shouldIncludeFile(path, o.includePatterns, o.excludePatterns)
               /\ LET sub == apiParseGitUrl(req.ref).path
                  IN  sub = None \/ StartsWith(path, sub[1])
          [] strategy = "legacy" ->
               \A q \in chain : scanKeeps(q, <<>>, o.includePatterns, o.excludePatterns)
          [] OTHER ->
               \A q \in chain : ~WalkSkips(q, o)

\* the line of the rendered tree and the header line of the content that
\* stand for the file at path in the running strategy's result
TreeLineOf(path) ==
    IF strategy = "legacy"
    THEN legacyTreeLine([path |-> path, isDirectory |-> FALSE])
    ELSE TreeLine([path |-> path, isDirectory |-> FALSE])

HeaderOf(path) ==
    (IF strategy \in {"api", "clone"} THEN "File: " ELSE "FILE: ") \o path

\* the position of a line in a text (0 when it is not there)
LinePos(lines, line) ==
    IF \E i \in DOMAIN lines : lines[i] = line
    THEN CHOOSE i \in DOMAIN lines :
            lines[i] = line /\ \A j \in DOMAIN lines : lines[j] = line => i <= j
    ELSE 0

InTree(path) == LinePos(outcome.tree, TreeLineOf(path)) > 0

InContent(path) == LinePos(outcome.content, HeaderOf(path)) > 0

\* C1: in the remote-API and the in-browser strategies the values passed to
\* onProgress are finite, lie in 0..100 and never decrease.
C1_ProgressMonotone ==
    strategy \in {"api", "client"} =>
        /\ \A i \in DOMAIN reported : InRange(reported[i])
        /\ \A i \in 1..(Len(reported) - 1) : FracLeq(reported[i], reported[i + 1])

\* C2: in every strategy's result a file larger than the size limit is in
\* neither the tree nor the content, and a file exactly at the limit that
\* passes the pattern filter (and whose stat did not fail) is in both.
C2_SizeFilter ==
    outcome.state = "ok" =>
        \A i \in DOMAIN repo :
            /\ repo[i].size > Limit =>
                   ~InTree(repo[i].path) /\ ~InContent(repo[i].path)
            /\ ( /\ repo[i].size = Limit
                 /\ PassesFilter(repo[i].path)
                 /\ repo[i].path \notin walk.failed )
                   => InTree(repo[i].path) /\ InContent(repo[i].path)

\* C2 witness: a result for a repository with one file above the limit, left
\* out, and one exactly at the limit, kept in the tree and in the content.
C2_Witness ==
    /\ outcome.state = "ok"
    /\ \E i, j \in DOMAIN repo :
          /\ repo[i].size > Limit
          /\ ~InTree(repo[i].path) /\ ~InContent(repo[i].path)
          /\ repo[j].size = Limit
          /\ PassesFilter(repo[j].path)
          /\ InTree(repo[j].path) /\ InContent(repo[j].path)

C4_ContentFollowsTree ==
    outcome.state = "ok" =>
        \A i, j \in DOMAIN repo :
            LET a == repo[i].path
                b == repo[j].path
            IN  (InTree(a) /\ InTree(b) /\ InContent(a) /\ InContent(b)) =>
                    ( LinePos(outcome.content, HeaderOf(a))
                          < LinePos(outcome.content, HeaderOf(b))
                      <=> LinePos(outcome.tree, TreeLineOf(a))
                              < LinePos(outcome.tree, TreeLineOf(b)) )

\* C5: shouldIncludeFile answers false for every path that matches a
\* default-ignore pattern, whatever the include and exclude patterns are.
C5_DefaultIgnoreWins ==
    ( /\ probe.applied = "shouldIncludeFile"
      /\ AnyMatch(probe.path, DEFAULT_IGNORE_PATTERNS) ) => ~probe.kept

\* C5 witness: shouldIncludeFile was applied to a path that matches a
\* default-ignore pattern and an include pattern, and rejected it.
C5_Witness ==
    /\ probe.applied = "shouldIncludeFile"
    /\ AnyMatch(probe.path, DEFAULT_IGNORE_PATTERNS)
    /\ HasLength(probe.includePatterns)
    /\ AnyMatch(probe.path, probe.includePatterns.pats)
    /\ ~probe.kept

\* C6: a path that no default-ignore and no exclude pattern matches is kept
\* exactly when the include patterns are absent or empty or one of them
\* matches it, in shouldIncludeFile and in scanDirectory alike.
C6_IncludeRule ==
    probe.applied # "none" =>
        LET inc     == probe.includePatterns
            exc     == probe.excludePatterns
            api     == probe.applied = "shouldIncludeFile"
            ignored == IF api
                       THEN \/ AnyMatch(probe.path, DEFAULT_IGNORE_PATTERNS)
                            \/ AnyMatch(probe.path, exc.pats)
                       ELSE \/ IgIgnores(probe.path, LegacyIgnorePatterns(<<>>))
                            \/ \E k \in 1..Len(exc.pats) :
                                  legacyMatchPattern(probe.path, exc.pats[k])
            matches == IF api
                       THEN AnyMatch(probe.path, inc.pats)
                       ELSE \E k \in 1..Len(inc.pats) :
                               legacyMatchPattern(probe.path, inc.pats[k])
        IN  ~ignored => (probe.kept <=> (Len(inc.pats) > 0 => matches))

\* the caller is told that the host refused the credentials
AuthenticationFailed(o) ==
    o.state = "error" /\ StartsWith(o.error, "Authentication failed")

\* C7: a request the host refused with 401 or 403 settles with an
\* authentication failure, in every strategy.
C7_AuthSurfaced ==
    (pc = "done" /\ outcome.hostStatus \in {401, 403}) => AuthenticationFailed(outcome)

\* C8: a server endpoint's failure carries 400 for an invalid reference, 401
\* for a clone the host refused for authentication, 404 for a repository
\* not found, and 500 otherwise.
C8_StatusTaxonomy ==
    (strategy \in {"clone", "legacy"} /\ pc = "done" /\ outcome.state = "error") =>
        outcome.status \in
            (IF ~ParseFor(strategy, req.ref).ok THEN {400}
             ELSE IF outcome.hostStatus = 401 THEN {401}
             ELSE IF outcome.hostStatus = 403 THEN {401, 500}
             ELSE IF outcome.hostStatus = 404 THEN {404}
             ELSE {500})

\* C9: a request whose reference its strategy cannot parse never issues a
\* network request, never creates temporary storage, never reaches the
\* clone or the fetches, and settles with the invalid-reference error.
C9_InvalidBeforeWork ==
    (strategy \in Strategies /\ ~ParseFor(strategy, req.ref).ok) =>
        /\ net = 0
        /\ storage = "none"
        /\ pc \in {"start", "finally", "done"}
        /\ pc = "done" => outcome.state = "error" /\ StartsWith(outcome.error, "Invalid")

\* C9 witness: the clone endpoint answered a malformed reference.
C9_Witness ==
    /\ strategy = "clone" /\ pc = "done"
    /\ ~routeParseGitUrl(req.ref).ok
    /\ outcome.status = 400
    /\ net = 0 /\ storage = "none"

\* fetches issued and not yet completed
Outstanding == fetch.started \ fetch.completed

\* the batch (0-based) the k-th filtered file belongs to
BatchIndex(k) == (k - 1) \div CONCURRENT_DOWNLOADS

StartedBatches == Cardinality({BatchIndex(k) : k \in fetch.started})

\* C10: in the fetch phase of the remote-API strategy at most five fetches
\* are outstanding, a fetch is started only when every fetch of the earlier
\* batches has completed, and exactly one progress report follows each
\* completed batch before the next one starts.
C10_BatchesInSequence ==
    (strategy = "api" /\ pc \in {"batch", "await"}) =>
        /\ Cardinality(Outstanding) <= 5
        /\ \A k \in fetch.started : \A j \in 1..Len(fetch.filtered) :
               BatchIndex(j) < BatchIndex(k) => j \in fetch.completed
        /\ pc = "await" => Len(reported) = 4 + StartedBatches - 1
        /\ pc = "batch" => /\ Outstanding = {}
                           /\ Len(reported) = 4 + StartedBatches

\* C10 witness: the second batch is in flight, after the first batch of five
\* completed and its progress was reported.
C10_Witness ==
    /\ strategy = "api" /\ pc = "await"
    /\ Len(fetch.filtered) > 5
    /\ 6 \in Outstanding
    /\ (1..5) \subseteq fetch.completed
    /\ Len(reported) = 5

(***************************************************************************)
(* The resolvers on their own: a reference goes in, the parsed repository   *)
(* (or the refusal) comes out.                                              *)
(***************************************************************************)
\* references as users type or paste them
BaseRefs ==
    { "o/r", "owner/repo", "github.com/o/r", "https://github.com/o/r",
      "http://github.com/o/r", "https://gitlab.com/g/p",
      "https://github.com/o/r/tree/main", "https://github.com/o/r/tree/main/src",
      "https://github.com/o/r/tree/dev/src/lib", "github.com/o/r/blob/main/a.ts",
      "https://github.com/o/r/tree/main/my docs",
      "https://github.com/o/.git/x", "https://github.com/o", "x" }

\* what may surround a reference: nothing, a trailing .git, spaces, or both
Decorations == {"plain", "git", "spaces", "git-spaces"}

Decorate(s, how) ==
    CASE how = "git"        -> s \o ".git"
      [] how = "spaces"     -> " " \o s \o " "
      [] how = "git-spaces" -> s \o ".git" \o " "
      [] OTHER              -> s

Resolvers == {"api", "clone", "client", "legacy"}

ResolveBy(resolver, ref) ==
    CASE resolver = "api"    -> apiParseGitUrl(ref)
      [] resolver = "clone"  -> routeParseGitUrl(ref)
      [] resolver = "client" -> clientParseGitUrl(ref)
      [] OTHER               -> legacyParseGitUrl(ref)

ResolveInit ==
    /\ strategy = "none"
    /\ pc = "idle"
    /\ req = Request(MainRef, <<"exclude", "">>)
    /\ repo = <<>>
    /\ host = HealthyHost
    /\ net = 0
    /\ storage = "none"
    /\ reported = <<>>
    /\ treeList = <<>>
    /\ fileList = <<>>
    /\ fetch = NoFetch
    /\ walk = NoWalk
    /\ outcome = Pending
    /\ faults = 0
    /\ \E b \in BaseRefs, d \in Decorations :
          probe = [base |-> b, decoration |-> d, input |-> Decorate(b, d),
                   applied |-> "none", result |-> NoRepo]

\* the probe after a resolver was applied to the input
Resolved(resolver) ==
    [probe EXCEPT !.applied = resolver,
                  !.result = ResolveBy(resolver, probe.input)]

\* parseGitUrl of the remote-API strategy
ResolveApi ==
    /\ probe.applied = "none"
    /\ probe' = Resolved("api")
    /\ UNCHANGED <<strategy, pc, req, repo, net, storage, reported, treeList, fileList,
                   fetch, walk, outcome, faults, host>>

\* parseGitUrl of the clone endpoint
ResolveClone ==
    /\ probe.applied = "none"
    /\ probe' = Resolved("clone")
    /\ UNCHANGED <<strategy, pc, req, repo, net, storage, reported, treeList, fileList,
                   fetch, walk, outcome, faults, host>>

\* parseGitUrl of the in-browser strategy
ResolveClient ==
    /\ probe.applied = "none"
    /\ probe' = Resolved("client")
    /\ UNCHANGED <<strategy, pc, req, repo, net, storage, reported, treeList, fileList,
                   fetch, walk, outcome, faults, host>>

\* parseGitUrl of lib/parser.ts
ResolveLegacy ==
    /\ probe.applied = "none"
    /\ probe' = Resolved("legacy")
    /\ UNCHANGED <<strategy, pc, req, repo, net, storage, reported, treeList, fileList,
                   fetch, walk, outcome, faults, host>>

ResolveNext == ResolveApi \/ ResolveClone \/ ResolveClient \/ ResolveLegacy

SpecResolve == ResolveInit /\ [][ResolveNext]_vars

\* owner/repo: one slash, no dot, no space, two non-empty segments
IsShortRef(s) ==
    /\ Len(Split(s, "/")) = 2
    /\ Split(s, "/")[1] # "" /\ Split(s, "/")[2] # ""
    /\ ~Includes(s, ".") /\ ~Includes(s, " ")

\* C11: the remote-API, server-endpoint and client resolvers resolve every
\* short reference owner/repo to host github.com with that owner and repo.
C11_ShortRefResolves ==
    ( /\ probe.applied \in {"api", "clone", "client"}
      /\ IsShortRef(probe.input) ) =>
        /\ probe.result.ok
        /\ probe.result.host = "github.com"
        /\ probe.result.owner = Split(probe.input, "/")[1]
        /\ probe.result.repo = Split(probe.input, "/")[2]

\* the text after the first "/tree/" of a reference ("" when there is none)
RECURSIVE TreeSuffix(_)
TreeSuffix(s) ==
    IF Len(s) < 6 THEN ""
    ELSE IF StartsWith(s, "/tree/") THEN SubSeq(s, 7, Len(s))
    ELSE TreeSuffix(Rest(s))

\* branch and subpath rejoined with '/'
Rejoined(r) ==
    IF r.branch = None THEN ""
    ELSE IF r.path = None THEN r.branch[1]
    ELSE r.branch[1] \o "/" \o r.path[1]

\* C12: for a reference <repo-url>/tree/<branch>/<subpath...> (as typed,
\* without a trailing .git or surrounding spaces) the resolved branch and
\* subpath rejoined give the text after /tree/, and a suffix of one segment
\* gives that branch and no subpath (remote-API and legacy resolvers, which
\* are the ones that yield a branch).
C12_TreeSuffixRoundTrip ==
    ( /\ probe.applied \in {"api", "legacy"}
      /\ probe.decoration = "plain"
      /\ TreeSuffix(probe.input) # "" ) =>
        /\ probe.result.ok
        /\ Rejoined(probe.result) = TreeSuffix(probe.input)
        /\ ~Includes(TreeSuffix(probe.input), "/") => probe.result.path = None

\* C13: a successful resolve yields a non-empty owner and a non-empty repo.
C13_OwnerRepoNonEmpty ==
    (probe.applied # "none" /\ probe.result.ok) =>
        probe.result.owner # "" /\ probe.result.repo # ""

\* C14: a reference that resolves, resolves to the same repository, branch
\* and subpath with a trailing .git, with spaces around it, and with both.
C14_SuffixAndSpaceInsensitive ==
    (probe.applied # "none" /\ ResolveBy(probe.applied, probe.base).ok) =>
        probe.result = ResolveBy(probe.applied, probe.base)

(***************************************************************************)
(* The tree builders on their own: a list of entries goes in, the lines of  *)
(* the tree come out.                                                       *)
(***************************************************************************)
\* entries per tree
MaxTreeEntries == 3

\* the entries a list is drawn from
TreePool ==
    << [path |-> "src", isDirectory |-> TRUE],
       [path |-> "Docs", isDirectory |-> TRUE],
       [path |-> "src/lib", isDirectory |-> TRUE],
       [path |-> "a.ts", isDirectory |-> FALSE],
       [path |-> "B.ts", isDirectory |-> FALSE],
       [path |-> "src/a.ts", isDirectory |-> FALSE],
       [path |-> "src/lib/z.ts", isDirectory |-> FALSE] >>

\* the enumerations: lists of distinct positions of the pool
Enumerations ==
    UNION { {q \in [1..n -> 1..Len(TreePool)] :
                \A i, j \in 1..n : i # j => q[i] # q[j]} : n \in 0..MaxTreeEntries }

EntriesOf(order) == [i \in 1..Len(order) |-> TreePool[order[i]]]

RootLabel == "r"

TreeInit ==
    /\ strategy = "none"
    /\ pc = "idle"
    /\ req = Request(MainRef, <<"exclude", "">>)
    /\ repo = <<>>
    /\ host = HealthyHost
    /\ net = 0
    /\ storage = "none"
    /\ reported = <<>>
    /\ treeList = <<>>
    /\ fileList = <<>>
    /\ fetch = NoFetch
    /\ walk = NoWalk
    /\ outcome = Pending
    /\ faults = 0
    /\ \E q \in Enumerations :
          probe = [order |-> q, applied |-> "none", lines |-> <<>>]

\* generateTree(files, repoName) of the remote-API, clone and client strategies
ApplyGenerateTree ==
    /\ probe.applied = "none"
    /\ probe' = [probe EXCEPT !.applied = "generateTree",
                              !.lines = generateTree(EntriesOf(probe.order), RootLabel)]
    /\ UNCHANGED <<strategy, pc, req, repo, net, storage, reported, treeList, fileList,
                   fetch, walk, outcome, faults, host>>

\* generateTree(files, rootPath) of the legacy strategy
ApplyLegacyGenerateTree ==
    /\ probe.applied = "none"
    /\ probe' = [probe EXCEPT !.applied = "legacyGenerateTree",
                              !.lines = legacyGenerateTree(EntriesOf(probe.order))]
    /\ UNCHANGED <<strategy, pc, req, repo, net, storage, reported, treeList, fileList,
                   fetch, walk, outcome, faults, host>>

TreeNext == ApplyGenerateTree \/ ApplyLegacyGenerateTree

SpecTree == TreeInit /\ [][TreeNext]_vars

\* the characters of the paths in their code-unit order
CodeUnits ==
    " !#$%&'()*+,-./0123456789:;<=>?@ABCDEFGHIJKLMNOPQRSTUVWXYZ[]^_abcdefghijklmnopqrstuvwxyz{|}~"

CodeOf(c) == CHOOSE k \in 1..Len(CodeUnits) : Char(CodeUnits, k) = c

\* a < b in lexicographic order of the code units
RECURSIVE LexLess(_, _)
LexLess(a, b) ==
    IF b = "" THEN FALSE
    ELSE IF a = "" THEN TRUE
    ELSE IF Char(a, 1) = Char(b, 1) THEN LexLess(Rest(a), Rest(b))
    ELSE CodeOf(Char(a, 1)) < CodeOf(Char(b, 1))

\* the directory an entry lies in ("" for the top level)
ParentOf(path) == JoinWith(AncestorsOf(path) , "|")

\* the line generateTree renders for an entry, and its position in the output
PosOf(e) == LinePos(probe.lines, TreeLine(e))

\* C15: among the entries of one directory the directories come before the
\* files, and entries of one kind follow the lexicographic order of their
\* paths.
C15_LevelOrder ==
    probe.applied = "generateTree" =>
        \A i, j \in DOMAIN probe.order :
            LET a == TreePool[probe.order[i]]
                b == TreePool[probe.order[j]]
            IN  (i # j /\ ParentOf(a.path) = ParentOf(b.path)) =>
                    /\ (a.isDirectory /\ ~b.isDirectory) => PosOf(a) < PosOf(b)
                    /\ (a.isDirectory = b.isDirectory /\ LexLess(a.path, b.path))
                           => PosOf(a) < PosOf(b)

\* the number of '/' in a path
Separators(path) == Len(Split(path, "/")) - 1

\* C16: the tree's first line is the title, the second the root label, and
\* every entry has a line indented by four spaces per '/' of its path, with
\* the branch prefix, its name, and a '/' after a directory.
C16_TreeFormat ==
    probe.applied = "generateTree" =>
        /\ Len(probe.lines) = 2 + Len(probe.order)
        /\ probe.lines[1] = "Directory structure:"
        /\ probe.lines[2] = "+-- " \o RootLabel \o "/"
        /\ \A i \in DOMAIN probe.order :
              LET e == TreePool[probe.order[i]]
              IN  \E k \in 3..Len(probe.lines) :
                     probe.lines[k] =
                         Repeat("    ", Separators(e.path)) \o "|-- " \o BaseName(e.path)
                             \o (IF e.isDirectory THEN "/" ELSE "")

\* C17: the tree of a list of entries is the tree of the same entries
\* enumerated in the pool's order, whatever the enumeration.
C17_OrderIndependent ==
    probe.applied = "generateTree" =>
        probe.lines = generateTree(EntriesOf(Ascending(Range(probe.order))), RootLabel)

\* C17 witness: a tree was built from three entries enumerated in another
\* order than the pool's, and it is the tree of the pool's order.
C17_Witness ==
    /\ probe.applied = "generateTree"
    /\ Len(probe.order) = 3
    /\ probe.order # Ascending(Range(probe.order))
    /\ probe.lines = generateTree(EntriesOf(Ascending(Range(probe.order))), RootLabel)

(***************************************************************************)
(* The content builders on their own: a list of aggregated files goes in,   *)
(* the text of `content` comes out.                                         *)
(***************************************************************************)
\* files per aggregated list
MaxContentFiles == 2

ContentPaths == {"a.ts", "b.ts", "c.ts"}

\* the texts of a file: empty, one line, and a line followed by a blank line
\* and the three lines that open the block of b.ts
ContentTexts ==
    {"", "x", "x\n\n" \o SEPARATOR \o "\nFile: b.ts\n" \o SEPARATOR \o "\nx"}

\* the aggregated lists: files with distinct paths
FileLists ==
    UNION { {fl \in [1..n -> [path : ContentPaths, isDirectory : {FALSE},
                              content : ContentTexts]] :
                \A i, j \in 1..n : i # j => fl[i].path # fl[j].path}
            : n \in 0..MaxContentFiles }

\* contentParts.join('\n') of the remote-API strategy
ApiContentText(files) == JoinWith(ApiContent(files), "\n")

\* contentParts.join('\n') of the clone endpoint
CloneContentText(files) == JoinWith(Blocks("File: ", files), "\n")

ContentBy(builder, files) ==
    IF builder = "api" THEN ApiContentText(files) ELSE CloneContentText(files)

ContentInit ==
    /\ strategy = "none"
    /\ pc = "idle"
    /\ req = Request(MainRef, <<"exclude", "">>)
    /\ repo = <<>>
    /\ host = HealthyHost
    /\ net = 0
    /\ storage = "none"
    /\ reported = <<>>
    /\ treeList = <<>>
    /\ fileList = <<>>
    /\ fetch = NoFetch
    /\ walk = NoWalk
    /\ outcome = Pending
    /\ faults = 0
    /\ \E fl \in FileLists :
          probe = [files |-> fl, applied |-> "none", content |-> ""]

\* the content loop of ingestRepository
ApplyApiContent ==
    /\ probe.applied = "none"
    /\ probe' = [probe EXCEPT !.applied = "api",
                              !.content = ApiContentText(probe.files)]
    /\ UNCHANGED <<strategy, pc, req, repo, net, storage, reported, treeList, fileList,
                   fetch, walk, outcome, faults, host>>

\* the content loop of the clone endpoint
ApplyCloneContent ==
    /\ probe.applied = "none"
    /\ probe' = [probe EXCEPT !.applied = "clone",
                              !.content = CloneContentText(probe.files)]
    /\ UNCHANGED <<strategy, pc, req, repo, net, storage, reported, treeList, fileList,
                   fetch, walk, outcome, faults, host>>

ContentNext == ApplyApiContent \/ ApplyCloneContent

SpecContent == ContentInit /\ [][ContentNext]_vars

\* the ordered {path, content} pairs of a list of files
PairsOf(files) ==
    [i \in DOMAIN files |-> [path |-> files[i].path, content |-> files[i].content]]

\* C18: the content determines the ordered list of {path, content} pairs it
\* was built from (what any parser of the separator / header structure needs
\* to recover the list): no other list of files gives the same content.
C18_ContentRoundTrip ==
    probe.applied # "none" =>
        \A other \in FileLists :
            ContentBy(probe.applied, other) = probe.content
                => PairsOf(other) = PairsOf(probe.files)

\* the number of blocks a path has in the content of the result
BlocksFor(path) ==
    Cardinality({k \in DOMAIN outcome.content : outcome.content[k] = HeaderOf(path)})

\* C19: in a successful result every file of the tree has exactly one block in
\* the content, a file that is not in the tree has none, and the count of
\* files analyzed is the number of files with a block; empty files included.
C19_ContentMatchesTree ==
    outcome.state = "ok" =>
        /\ \A i \in DOMAIN repo :
              BlocksFor(repo[i].path) = (IF InTree(repo[i].path) THEN 1 ELSE 0)
        /\ outcome.filesAnalyzed
               = Cardinality({i \in DOMAIN repo : BlocksFor(repo[i].path) > 0})

\* the contents that stand for a file that could not be fetched, read or
\* decoded
FailureSentinels ==
    {"[Failed to fetch: ]", "[Binary or failed to decode]", "[Binary file]",
     "[Binary file - content not included]"}

\* the files whose fetch, read or decoding has failed so far
FailedFiles ==
    {f.path : f \in {g \in Range(fileList) \cup Range(fetch.contents) :
                        g.content \in FailureSentinels}}

\* nothing else went wrong: every fault of the request is the failure of one
\* file (undecodable bytes in the browser are no fault of the environment)
OnlyFileFailures ==
    /\ FailedFiles # {}
    /\ faults = (IF strategy = "client" THEN 0 ELSE Cardinality(FailedFiles))

\* the text the content shows for a file
ShownFor(path) ==
    LET k == LinePos(outcome.content, HeaderOf(path))
    IN  IF k = 0 THEN "" ELSE outcome.content[k + 2]

\* C20: a request in which files failed to be fetched, read or decoded (and
\* nothing else failed) does not fail, and its result holds every file that
\* gets through the filters: each is in the tree, and each but the failed
\* ones (and the empty ones of the remote-API strategy, which have no block
\* in any result) has its block with its text.
C20_FileFailureIsolated ==
    OnlyFileFailures =>
        /\ outcome.state # "error"
        /\ pc = "done" =>
              /\ outcome.state = "ok"
              /\ \A i \in DOMAIN repo :
                    ( /\ PassesFilter(repo[i].path)
                      /\ repo[i].size <= Limit )
                        => /\ InTree(repo[i].path)
                           /\ \E f \in Range(fileList) : f.path = repo[i].path
                           /\ ( /\ repo[i].path \notin FailedFiles
                                /\ ~(strategy = "api" /\ repo[i].size = 0) )
                                  => /\ BlocksFor(repo[i].path) = 1
                                     /\ ShownFor(repo[i].path)
                                            = TextOf(repo[i].path, repo[i].size)

\* C20 witness: a remote-API request with six files in which a fetch of the
\* first batch failed has succeeded, and the file of the second batch is in
\* the content with its text.
C20_Witness ==
    /\ strategy = "api" /\ pc = "done"
    /\ Len(repo) > CONCURRENT_DOWNLOADS
    /\ outcome.state = "ok"
    /\ \E k \in 1..CONCURRENT_DOWNLOADS : fileList[k].content \in FailureSentinels
    /\ LET last == repo[Len(repo)]
       IN  /\ last.path \notin FailedFiles
           /\ BlocksFor(last.path) = 1
           /\ ShownFor(last.path) = TextOf(last.path, last.size)

\* C21: in every strategy's result the block of a file whose bytes are not
\* valid UTF-8 holds exactly the sentinel '[Binary file]'.
C21_BinarySentinel ==
    outcome.state = "ok" =>
        \A i \in DOMAIN repo :
            (IsBinary(repo[i].path) /\ BlocksFor(repo[i].path) = 1)
                => ShownFor(repo[i].path) = "[Binary file]"

\* what the in-browser strategy hands to its caller from where it stands:
\* the error of a failed clone, the error of a failed traversal, or the
\* result of the finished traversal
ClientOutcome ==
    IF pc = "clone"
    THEN Failure(0, ClientErrorMessage(IsoGitMessage(Answer)), Answer)
    ELSE IF walk.cursor <= Len(walk.entries)
    THEN Failure(0, ClientErrorMessage("callback failed"), 0)
    ELSE Success(0, generateTree(treeList, clientParseGitUrl(req.ref).repo),
                 Blocks("FILE: ", fileList), Len(fileList))

\* C22: a step in which the removal of the temporary storage fails leaves
\* the caller with what the request had come to: the endpoints' response is
\* the one built before the finally block, and the in-browser strategy
\* returns its result, or throws the error of the cause.
C22_CleanupFailureSwallowed ==
    [][ (storage = "created" /\ storage' = "leftover") =>
            IF strategy = "client"
            THEN outcome' = ClientOutcome
            ELSE outcome.state # "pending" /\ outcome' = outcome ]_vars

\* C22 witness: the clone endpoint's request had failed while reading, the
\* removal failed too, and the response is still the 500 of the read.
C22_Witness ==
    /\ strategy = "clone" /\ pc = "done"
    /\ storage = "leftover"
    /\ outcome.state = "error"
    /\ outcome.error = "ENOENT: no such file or directory, stat"

(***************************************************************************)
(* The token estimator on its own: estimateTokens of src/lib/git.ts, from   *)
(* the number of tokens the encoder returns to the formatted string.        *)
(***************************************************************************)
\* sampled steps above each threshold
MaxSteps == 30

\* the token counts: around the thresholds, and in steps of 50 above 1,000
\* and of 50,000 above 1,000,000 (every second one is halfway between two
\* one-decimal values)
TokenCounts ==
    {0, 1, 500, 999, 1049, 1051, 1060, 999949, 999950, 999999, 2500000, 12345678}
        \cup {1000 + 50 * k : k \in 0..MaxSteps}
        \cup {1000000 + 50000 * k : k \in 0..MaxSteps}

DecimalDigits == "0123456789"

\* Number.prototype.toString of a non-negative integer
RECURSIVE NumberToString(_)
NumberToString(n) ==
    IF n < 10 THEN Char(DecimalDigits, n + 1)
    ELSE NumberToString(n \div 10) \o Char(DecimalDigits, (n % 10) + 1)

\* the binary exponent of n / den for n >= den
RECURSIVE BinaryExponent(_, _)
BinaryExponent(n, den) ==
    IF n < 2 * den THEN 0 ELSE 1 + BinaryExponent(n \div 2, den)

\* 2^s modulo m
RECURSIVE Pow2Mod(_, _)
Pow2Mod(s, m) == IF s = 0 THEN 1 % m ELSE (2 * Pow2Mod(s - 1, m)) % m

\* a * b modulo m for a < m, without a product that leaves 32 bits
RECURSIVE ModMul(_, _, _)
ModMul(a, b, m) ==
    IF b = 0 THEN 0
    ELSE (2 * ModMul(a, b \div 2, m) + (b % 2) * a) % m

\* the sign of (the double n / den) - (the quotient n / den): the division
\* rounds the quotient to 53 significant bits, down when the remainder of
\* n * 2^(52 - exponent) by den is below half of den and up when above (the
\* remainder is never exactly half of den for den = 10^3 and 10^6)
DivisionError(n, den) ==
    LET r == ModMul(n % den, Pow2Mod(52 - BinaryExponent(n, den), den), den)
    IN  IF r = 0 THEN 0 ELSE IF 2 * r < den THEN -1 ELSE 1

\* a mutant of toFixed1: the digits after the first decimal are cut off
toFixed1Truncating(n, den) ==
    LET tenths == (10 * n) \div den
    IN  NumberToString(tenths \div 10) \o "." \o NumberToString(tenths % 10)

\* (n / den).toFixed(1): the one-decimal value nearest to the double, the
\* larger one when the double lies exactly halfway
toFixed1(n, den) ==
    LET low    == (10 * n) \div den
        rest   == 10 * n - low * den
        tenths == IF 2 * rest < den THEN low
                  ELSE IF 2 * rest > den THEN low + 1
                  ELSE IF DivisionError(n, den) < 0 THEN low
                  ELSE low + 1
    IN  NumberToString(tenths \div 10) \o "." \o NumberToString(tenths % 10)

\* the formatting of estimateTokens
formatTokens(totalTokens) ==
    IF totalTokens >= 1000000 THEN toFixed1(totalTokens, 1000000) \o "M"
    ELSE IF totalTokens >= 1000 THEN toFixed1(totalTokens, 1000) \o "k"
    ELSE NumberToString(totalTokens)

TokensInit ==
    /\ strategy = "none"
    /\ pc = "idle"
    /\ req = Request(MainRef, <<"exclude", "">>)
    /\ repo = <<>>
    /\ host = HealthyHost
    /\ net = 0
    /\ storage = "none"
    /\ reported = <<>>
    /\ treeList = <<>>
    /\ fileList = <<>>
    /\ fetch = NoFetch
    /\ walk = NoWalk
    /\ outcome = Pending
    /\ faults = 0
    /\ \E n \in TokenCounts :
          probe = [totalTokens |-> n, applied |-> "none", result |-> None]

\* estimateTokens: the encoder returns and the count is formatted
EstimateTokens ==
    /\ probe.applied = "none"
    /\ probe' = [probe EXCEPT !.applied = "estimateTokens",
                              !.result = Some(formatTokens(probe.totalTokens))]
    /\ UNCHANGED <<strategy, pc, req, repo, net, storage, reported, treeList, fileList,
                   fetch, walk, outcome, faults, host>>

\* estimateTokens: the encoder throws, the catch block returns null
EstimateTokensFails ==
    /\ probe.applied = "none"
    /\ probe' = [probe EXCEPT !.applied = "failed", !.result = None]
    /\ UNCHANGED <<strategy, pc, req, repo, net, storage, reported, treeList, fileList,
                   fetch, walk, outcome, faults, host>>

TokensNext == EstimateTokens \/ EstimateTokensFails

SpecTokens == TokensInit /\ [][TokensNext]_vars

\* s is n / den rounded to one decimal: the value d.t of s is one of the
\* one-decimal values nearest to the quotient
RoundedTo1(s, n, den) ==
    \E t \in {(10 * n) \div den, (10 * n) \div den + 1} :
        /\ 2 * (10 * n - t * den) <= den
        /\ 2 * (t * den - 10 * n) <= den
        /\ s = NumberToString(t \div 10) \o "." \o NumberToString(t % 10)

\* C23: estimateTokens gives the plain integer below 1,000, the thousands
\* rounded to one decimal followed by 'k' below 1,000,000, and the millions
\* rounded to one decimal followed by 'M' from there on; 500, 1,500 and
\* 2,500,000 give "500", "1.5k" and "2.5M".
C23_TokenFormat ==
    probe.applied = "estimateTokens" =>
        LET n == probe.totalTokens
            s == probe.result[1]
        IN  /\ n < 1000 => s = NumberToString(n)
            /\ (1000 <= n /\ n < 1000000) =>
                   /\ EndsWith(s, "k")
                   /\ RoundedTo1(SubSeq(s, 1, Len(s) - 1), n, 1000)
            /\ n >= 1000000 =>
                   /\ EndsWith(s, "M")
                   /\ RoundedTo1(SubSeq(s, 1, Len(s) - 1), n, 1000000)
            /\ n = 500 => s = "500"
            /\ n = 1500 => s = "1.5k"
            /\ n = 2500000 => s = "2.5M"

\* C23 witness: 1,060 tokens were formatted as "1.1k".
C23_Witness ==
    /\ probe.applied = "estimateTokens"
    /\ probe.totalTokens = 1060
    /\ probe.result = Some("1.1k")

\* the directories of the repository
DirectoriesOf(files) == UNION {Range(AncestorsOf(files[i].path)) : i \in DOMAIN files}

\* the directory at path has a line in the tree of the result
DirInTree(path) ==
    LinePos(outcome.tree, TreeLine([path |-> path, isDirectory |-> TRUE])) > 0

\* the path matches a default-ignore pattern or an exclude pattern of the
\* request, by the running strategy's matcher
Excluded(path) ==
    LET o == RequestOptions
    IN  IF strategy = "api"
        THEN \/ AnyMatch(path, DEFAULT_IGNORE_PATTERNS)
             \/ HasLength(o.excludePatterns) /\ AnyMatch(path, o.excludePatterns.pats)
        ELSE IgIgnores(path, IgnoreList(o))

\* C24: in the remote-API, clone and in-browser strategies no line of the
\* tree, of a file or of a directory, stands for a path that matches a
\* default-ignore pattern or an exclude pattern.
C24_TreeEntriesFiltered ==
    (outcome.state = "ok" /\ strategy \in {"api", "clone", "client"}) =>
        /\ \A i \in DOMAIN repo : InTree(repo[i].path) => ~Excluded(repo[i].path)
        /\ \A d \in DirectoriesOf(repo) : DirInTree(d) => ~Excluded(d)

(***************************************************************************)
(* Two requests at once: how each strategy names, creates and removes its   *)
(* temporary storage.  probe holds, per request, the strategy, the position *)
(* and the storage's name, and the storages that exist and the clock.       *)
(***************************************************************************)
\* milliseconds the clock may advance
MaxClock == 1

Requests == {1, 2}

\* the strategies that use a temporary storage
StorageStrategies == {"clone", "legacy", "client"}

\* what Math.random().toString(36).slice(2) may yield
RandomSuffixes == {"k3x", "p0q"}

\* the names mkdtemp may try
MkdtempSuffixes == {"AbC123", "xYz789"}

ConcurrentInit ==
    /\ strategy = "none"
    /\ pc = "idle"
    /\ req = Request(MainRef, <<"exclude", "">>)
    /\ repo = <<>>
    /\ host = HealthyHost
    /\ net = 0
    /\ storage = "none"
    /\ reported = <<>>
    /\ treeList = <<>>
    /\ fileList = <<>>
    /\ fetch = NoFetch
    /\ walk = NoWalk
    /\ outcome = Pending
    /\ faults = 0
    /\ \E kinds \in [Requests -> StorageStrategies] :
          probe = [kind  |-> kinds,
                   at    |-> [r \in Requests |-> "start"],
                   name  |-> [r \in Requests |-> ""],
                   exist |-> {},
                   now   |-> 0]

\* the rest of the state of this specification
ConcurrentIdle ==
    UNCHANGED <<strategy, pc, req, repo, net, storage, reported, treeList, fileList,
                fetch, walk, outcome, faults, host>>

\* Date.now() moves on
ClockTick ==
    /\ probe.now < MaxClock
    /\ probe' = [probe EXCEPT !.now = @ + 1]
    /\ ConcurrentIdle

\* the clone endpoint: mkdtemp(join(tmpdir(), 'gitingest-')) creates a
\* directory that did not exist
Mkdtemp ==
    /\ \E r \in Requests : \E sfx \in MkdtempSuffixes :
          LET name == "tmpdir:gitingest-" \o sfx
          IN  /\ probe.kind[r] = "clone" /\ probe.at[r] = "start"
              /\ name \notin probe.exist
              /\ probe' = [probe EXCEPT !.at[r] = "created", !.name[r] = name,
                                        !.exist = @ \cup {name}]
    /\ ConcurrentIdle

\* the legacy endpoint: createTempDir() names the directory after the clock
\* and a random suffix, and fs.mkdir(tempDir, {recursive: true}) creates it
\* or finds it there
CreateTempDir ==
    /\ \E r \in Requests : \E sfx \in RandomSuffixes :
          LET name == "tmpdir:gitingest-" \o Char(DecimalDigits, probe.now + 1)
                          \o "-" \o sfx
          IN  /\ probe.kind[r] = "legacy" /\ probe.at[r] = "start"
              /\ probe' = [probe EXCEPT !.at[r] = "created", !.name[r] = name,
                                        !.exist = @ \cup {name}]
    /\ ConcurrentIdle

\* the in-browser strategy: new FS(fsName) opens the database of that name,
\* creating it if there is none
NewFS ==
    /\ \E r \in Requests : \E sfx \in RandomSuffixes :
          LET name == "indexeddb:gitingest-" \o Char(DecimalDigits, probe.now + 1)
                          \o "-" \o sfx
          IN  /\ probe.kind[r] = "client" /\ probe.at[r] = "start"
              /\ probe' = [probe EXCEPT !.at[r] = "created", !.name[r] = name,
                                        !.exist = @ \cup {name}]
    /\ ConcurrentIdle

\* the clone has settled and the request reads its storage
StartReading ==
    /\ \E r \in Requests :
          /\ probe.at[r] = "created"
          /\ probe' = [probe EXCEPT !.at[r] = "reading"]
    /\ ConcurrentIdle

\* the removal (finally block, or the in-browser rmdir): whatever is stored
\* under the request's name is removed
RemoveStorage ==
    /\ \E r \in Requests :
          /\ probe.at[r] \in {"created", "reading"}
          /\ probe' = [probe EXCEPT !.at[r] = "done",
                                    !.exist = @ \ {probe.name[r]}]
    /\ ConcurrentIdle

ConcurrentNext ==
    \/ ClockTick
    \/ Mkdtemp
    \/ CreateTempDir
    \/ NewFS
    \/ StartReading
    \/ RemoveStorage

SpecConcurrent == ConcurrentInit /\ [][ConcurrentNext]_vars

\* the request holds a storage it has not removed yet
Holding(r) == probe.at[r] \in {"created", "reading"}

\* C25: two requests that hold a storage at the same time hold different
\* storages, and the storage of a request that holds one exists (no other
\* request's removal took it away).
C25_StoragesDistinct ==
    /\ \A r, q \in Requests :
          (r # q /\ Holding(r) /\ Holding(q)) => probe.name[r] # probe.name[q]
    /\ \A r \in Requests : Holding(r) => probe.name[r] \in probe.exist

\* the branch the caller asks for: the one in the reference or in the
\* options when one is given, the repository's default branch otherwise
BranchAsked ==
    LET parsed == apiParseGitUrl(req.ref)
    IN  IF parsed.branch # None THEN parsed.branch[1]
        ELSE IF req.branch # "" THEN req.branch
        ELSE host.defaultBranch

\* C26: in the remote-API strategy, once the branch's ref was obtained, the
\* branch whose tree and files are fetched is the one the caller gave in the
\* reference or in the options, or else the repository's default branch.
C26_BranchFetched ==
    (strategy = "api" /\ (pc \in {"tree", "batch", "await"} \/ outcome.state = "ok"))
        => fetch.branch = BranchAsked

\* C27: in the in-browser strategy, during the traversal the files processed
\* are at most the files counted beforehand, the count is positive once a
\* file was processed, and the value reported for the last processed file
\* is finite and between 45 and 90.
C27_FileProgressBounded ==
    (strategy = "client" /\ pc = "walk" /\ walk.filesProcessed > 0) =>
        /\ walk.filesProcessed <= walk.totalFiles
        /\ walk.totalFiles > 0
        /\ LET last == reported[Len(reported)]
           IN  /\ last.d > 0
               /\ FracLeq(Whole(45), last)
               /\ FracLeq(last, Whole(90))

\* the path matches some include pattern of the request, as the traversal's
\* regular expression tests it
IncludeMatched(path) ==
    LET pats == RequestOptions.includePatterns.pats
    IN  \E k \in 1..Len(pats) : UnanchoredTest(path, pats[k])

\* C28: in the clone endpoint and the in-browser strategy, with include
\* patterns given, a file is in the tree or the content only if its path
\* and each directory above it match some include pattern.
C28_IncludeAlongPath ==
    ( /\ strategy \in {"clone", "client"}
      /\ outcome.state = "ok"
      /\ HasLength(RequestOptions.includePatterns) ) =>
        \A i \in DOMAIN repo :
            (InTree(repo[i].path) \/ InContent(repo[i].path)) =>
                \A q \in Range(AncestorsOf(repo[i].path)) \cup {repo[i].path} :
                    IncludeMatched(q)

\* C28 witness: with the include pattern '*.ts' the clone endpoint kept a.ts
\* and left out src/a.ts, which matches the pattern, because 'src' does not.
C28_Witness ==
    /\ strategy = "clone" /\ outcome.state = "ok"
    /\ HasLength(RequestOptions.includePatterns)
    /\ \E i, j \in DOMAIN repo :
          /\ repo[i].path = "a.ts" /\ InTree("a.ts") /\ InContent("a.ts")
          /\ repo[j].path = "src/a.ts" /\ repo[j].size <= Limit
          /\ IncludeMatched("src/a.ts") /\ ~IncludeMatched("src")
          /\ ~InTree("src/a.ts") /\ ~InContent("src/a.ts")

\* some pattern of the list, with its '*' removed, occurs in the path
OccursIn(path, pats) == \E k \in 1..Len(pats) : Includes(path, RemoveStars(pats[k]))

\* C29: shouldIncludeFile rejects every path in which a default-ignore
\* pattern, or an exclude pattern of the call, occurs as a substring once
\* its '*' are removed (matchPattern is true for such a pair).
C29_SubstringMatchRejects ==
    probe.applied = "shouldIncludeFile" =>
        /\ OccursIn(probe.path, DEFAULT_IGNORE_PATTERNS) => ~probe.kept
        /\ ( /\ HasLength(probe.excludePatterns)
             /\ OccursIn(probe.path, probe.excludePatterns.pats) ) => ~probe.kept

\* C29 witness: shouldIncludeFile, called without patterns, rejected
\* src/builder.ts, in which 'build' occurs and which no default-ignore
\* pattern matches as a whole.
C29_Witness ==
    /\ probe.applied = "shouldIncludeFile"
    /\ probe.path = "src/builder.ts"
    /\ ~probe.includePatterns.given /\ ~probe.excludePatterns.given
    /\ \A k \in 1..Len(DEFAULT_IGNORE_PATTERNS) :
          ~GlobMatch(probe.path, DEFAULT_IGNORE_PATTERNS[k])
    /\ ~probe.kept

\* the path is the directory s or lies inside it
Inside(path, s) == path = s \/ StartsWith(path, s \o "/")

\* C30: in the remote-API strategy with a subpath in the reference, every
\* file and directory in the tree and every file in the content is the
\* subpath directory or lies inside it.
C30_SubpathContains ==
    LET sub == apiParseGitUrl(req.ref).path
    IN  (strategy = "api" /\ outcome.state = "ok" /\ sub # None) =>
            /\ \A i \in DOMAIN repo :
                  (InTree(repo[i].path) \/ InContent(repo[i].path))
                      => Inside(repo[i].path, sub[1])
            /\ \A d \in DirectoriesOf(repo) : DirInTree(d) => Inside(d, sub[1])

====
